---------------------------- MODULE Spec2Model ----------------------------
(***************************************************************************)
(* A model of the IBC event-to-message translator of hyperspace:           *)
(*   hyperspace/core/src/events.rs    parse_events and its builders        *)
(* parse_events is one sequential async task: it walks the event list,     *)
(* awaits the chain queries of the builder of each event and pushes at     *)
(* most one message per event.  Every awaited query is a step of the       *)
(* model; what a chain answers is an input drawn at the step.              *)
(***************************************************************************)
EXTENDS Integers, Sequences, FiniteSets, TLC

\* ------------------------------------------------------------------ bounds

\* Longest event list handed to parse_events, over all event variants and
\* over the packet events.
MaxEvents == 2
MaxPacketEvents == 2

\* Longest list of handshake events, against every answer of the chains.
MaxHandshakeEvents == 2

\* Most attributes of an ABCI event handed to the decoder.
MaxAttributes == 2

\* --------------------------------------------------------------- options

None == <<>>
Some(x) == <<x>>
IsSome(o) == o # <<>>
Unwrap(o) == o[1]

\* ---------------------------------------------------------------- heights

Height(rn, rh) == [revision_number |-> rn, revision_height |-> rh]

\* Height::is_zero as used on timeout and proof heights.
is_zero(h) == h.revision_number = 0 /\ h.revision_height = 0

\* The height every event of the model was emitted at, the latest height of
\* the client state the source holds, and the proof height the source
\* reports for each kind of query: all different, so that a height taken
\* from the wrong place shows.
EventHeight == Height(1, 10)
LatestHeight == Height(1, 5)
ProofHeightOf(op) ==
    CASE op = "query_connection_end" -> Height(1, 11)
      [] op = "query_channel_end" -> Height(1, 12)
      [] op = "query_client_state" -> Height(1, 13)
      [] op = "query_client_consensus" -> Height(1, 14)
      [] op = "query_packet_commitment" -> Height(1, 15)
      [] op = "query_packet_acknowledgement" -> Height(1, 16)

\* Vec<u8> values: a proof is either empty or some bytes.
EmptyBytes == <<>>

\* ---------------------------------------------------------------- events

HandledKinds ==
    { "OpenInitConnection", "OpenTryConnection", "OpenAckConnection",
      "OpenInitChannel", "OpenTryChannel", "OpenAckChannel",
      "CloseInitChannel", "SendPacket", "WriteAcknowledgement" }

UnhandledKinds ==
    { "CreateClient", "UpdateClient", "UpgradeClient", "ClientMisbehaviour",
      "PushWasmCode", "OpenConfirmConnection", "OpenConfirmChannel",
      "CloseConfirmChannel", "ReceivePacket", "AcknowledgePacket",
      "TimeoutPacket", "TimeoutOnClosePacket" }

ConnectionKinds == { "OpenInitConnection", "OpenTryConnection", "OpenAckConnection" }
ChannelKinds == { "OpenInitChannel", "OpenTryChannel", "OpenAckChannel" }

\* Connection handshake events: connection_id is an Option.
ConnectionEvents ==
    [ kind : ConnectionKinds, height : {EventHeight},
      connection_id : {None, Some("connection-0")},
      client_id : {"07-tendermint-0"} ]

\* Channel handshake events: channel_id is an Option.
ChannelEvents ==
    [ kind : ChannelKinds, height : {EventHeight},
      port_id : {"transfer"}, channel_id : {None, Some("channel-0")},
      connection_id : {"connection-0"} ]

\* CloseInit carries its channel id unconditionally.
CloseInitEvents ==
    [ kind : {"CloseInitChannel"}, height : {EventHeight},
      port_id : {"transfer"}, channel_id : {"channel-0"},
      connection_id : {"connection-0"} ]

Packets ==
    [ sequence : {42},
      source_port : {"transfer"}, source_channel : {"channel-0"},
      destination_port : {"transfer-dst"}, destination_channel : {"channel-7"},
      data : {<<1, 2>>},
      timeout_height : {Height(0, 0), Height(1, 1000)},
      timeout_timestamp : {0, 5} ]

SendPacketEvents == [ kind : {"SendPacket"}, height : {EventHeight}, packet : Packets ]

WriteAckEvents ==
    [ kind : {"WriteAcknowledgement"}, height : {EventHeight},
      packet : {p \in Packets : (p.timeout_timestamp = 0) = is_zero(p.timeout_height)},
      ack : {<<7>>} ]

UnhandledEvents == [ kind : UnhandledKinds, height : {EventHeight} ]

AllEvents ==
    ConnectionEvents \cup ChannelEvents \cup CloseInitEvents \cup
    SendPacketEvents \cup WriteAckEvents \cup UnhandledEvents


\* ----------------------------------------------------- the chain interface

\* A call on a chain: an awaited query (a suspension point of the task) or a
\* synchronous read.  `at` is the height argument of a height-parameterized
\* query, None for the others.
Query(chain, op, at, args) == [chain |-> chain, op |-> op, at |-> at, args |-> args]

\* source.connection_prefix() and sink.account_id(): fixed per chain.
SourceConnectionPrefix == "ibc"
SinkAccountId == "sink-signer"

\* sink.client_type() answers.
ClientTypes == {"07-tendermint", "10-grandpa"}

\* Mutant: the test of the client type inverted.
contains_tendermint_Inverted(client_type) == client_type \notin {"07-tendermint"}

\* client_type.contains("tendermint")
contains_tendermint(client_type) == client_type \in {"07-tendermint"}

\* A failed query: the Err the `.await?` propagates.
QueryFailed == [ok |-> FALSE]

\* Raw (protobuf) connection end as the source returns it.
GoodRawConnection ==
    [ client_id |-> "07-tendermint-0",
      versions |-> <<"v2", "v1">>,
      counterparty |-> Some([ client_id |-> "07-tendermint-1",
                              connection_id |-> "connection-9",
                              prefix |-> "ibc-cp" ]),
      delay_period |-> 0 ]

RawConnections ==
    { GoodRawConnection,
      [GoodRawConnection EXCEPT !.delay_period = 10],
      [GoodRawConnection EXCEPT !.versions = <<>>],
      [GoodRawConnection EXCEPT !.versions = <<"v1", "v2">>],
      [GoodRawConnection EXCEPT !.counterparty =
          Some([client_id |-> "07-tendermint-1", connection_id |-> "", prefix |-> "ibc-cp"])],
      [GoodRawConnection EXCEPT !.counterparty = None] }

GoodConnectionResponse ==
    [ ok |-> TRUE, connection |-> Some(GoodRawConnection),
      proof |-> <<"connection-proof">>,
      proof_height |-> Some(ProofHeightOf("query_connection_end")) ]

\* What query_connection_end may answer.
ConnectionResponses ==
    { QueryFailed,
      [GoodConnectionResponse EXCEPT !.connection = None],
      [GoodConnectionResponse EXCEPT !.proof = EmptyBytes],
      [GoodConnectionResponse EXCEPT !.proof_height = None] }
    \cup { [GoodConnectionResponse EXCEPT !.connection = Some(c)] : c \in RawConnections }

\* Raw (protobuf) channel end as the source returns it.
GoodRawChannel ==
    [ state |-> "Init", ordering |-> "Ordered",
      counterparty |-> Some([port_id |-> "transfer-cp", channel_id |-> "channel-5"]),
      connection_hops |-> <<"connection-3", "connection-4">>,
      version |-> "ics20-1" ]

RawChannels ==
    { GoodRawChannel,
      [GoodRawChannel EXCEPT !.ordering = "Unordered"],
      [GoodRawChannel EXCEPT !.counterparty =
          Some([port_id |-> "transfer-cp", channel_id |-> ""])],
      [GoodRawChannel EXCEPT !.counterparty = None],
      [GoodRawChannel EXCEPT !.connection_hops = <<>>] }

GoodChannelResponse ==
    [ ok |-> TRUE, channel |-> Some(GoodRawChannel),
      proof |-> <<"channel-proof">>,
      proof_height |-> Some(ProofHeightOf("query_channel_end")) ]

\* What query_channel_end may answer.
ChannelResponses ==
    { QueryFailed,
      [GoodChannelResponse EXCEPT !.channel = None],
      [GoodChannelResponse EXCEPT !.proof = EmptyBytes],
      [GoodChannelResponse EXCEPT !.proof_height = None] }
    \cup { [GoodChannelResponse EXCEPT !.channel = Some(c)] : c \in RawChannels }

\* Raw client state (an Any): decodable when its type url is a known one.
GoodRawClientState == [type_url |-> "/ibc.lightclients.tendermint.v1.ClientState",
                       latest_height |-> LatestHeight]

GoodClientStateResponse ==
    [ ok |-> TRUE, client_state |-> Some(GoodRawClientState),
      proof |-> <<"client-state-proof">>,
      proof_height |-> Some(ProofHeightOf("query_client_state")) ]

\* What query_client_state may answer.
ClientStateResponses ==
    { QueryFailed,
      GoodClientStateResponse,
      [GoodClientStateResponse EXCEPT !.client_state = None],
      [GoodClientStateResponse EXCEPT !.client_state =
          Some([type_url |-> "/unknown", latest_height |-> LatestHeight])],
      [GoodClientStateResponse EXCEPT !.proof = EmptyBytes] }

GoodConsensusResponse ==
    [ ok |-> TRUE, proof |-> <<"consensus-proof">>,
      proof_height |-> Some(ProofHeightOf("query_client_consensus")) ]

\* What query_client_consensus may answer.
ConsensusResponses ==
    { QueryFailed, GoodConsensusResponse,
      [GoodConsensusResponse EXCEPT !.proof = EmptyBytes] }

GoodCommitmentResponse ==
    [ ok |-> TRUE, proof |-> <<"packet-proof">>,
      proof_height |-> Some(ProofHeightOf("query_packet_commitment")) ]

GoodAcknowledgementResponse ==
    [ ok |-> TRUE, proof |-> <<"ack-proof">>,
      proof_height |-> Some(ProofHeightOf("query_packet_acknowledgement")) ]

\* What query_packet_commitment and query_packet_acknowledgement may answer,
\* `good` being the complete answer.
PacketResponses(good) ==
    { QueryFailed, good,
      [good EXCEPT !.proof = EmptyBytes],
      [good EXCEPT !.proof_height = None],
      [good EXCEPT !.proof_height = Some(Height(0, 0))] }

\* What the sink's query_host_consensus_state_proof may answer:
\* Err, Ok(None) or Ok(Some(bytes)).
HostProofResponses ==
    { QueryFailed, [ok |-> TRUE, proof |-> None],
      [ok |-> TRUE, proof |-> Some(<<"host-proof">>)] }

\* The answers a query of kind `op` may get.
Answers(op) ==
    CASE op = "query_connection_end" -> ConnectionResponses
      [] op = "query_channel_end" -> ChannelResponses
      [] op = "query_client_state" -> ClientStateResponses
      [] op = "query_client_consensus" -> ConsensusResponses
      [] op = "query_packet_commitment" -> PacketResponses(GoodCommitmentResponse)
      [] op = "query_packet_acknowledgement" -> PacketResponses(GoodAcknowledgementResponse)
      [] op = "query_host_consensus_state_proof" -> HostProofResponses

\* The answers of the queries of the packet arms: every way the admission
\* queries end an arm, a delayed connection, an admission answer lacking
\* its (unused) proof height, and every answer of the proof query.
PacketAnswers(op) ==
    CASE op = "query_channel_end" ->
            { QueryFailed, GoodChannelResponse,
              [GoodChannelResponse EXCEPT !.channel = None],
              [GoodChannelResponse EXCEPT !.proof_height = None],
              [GoodChannelResponse EXCEPT !.channel =
                  Some([GoodRawChannel EXCEPT !.counterparty = None])],
              [GoodChannelResponse EXCEPT !.channel =
                  Some([GoodRawChannel EXCEPT !.connection_hops = <<>>])] }
      [] op = "query_connection_end" ->
            { QueryFailed, GoodConnectionResponse,
              [GoodConnectionResponse EXCEPT !.connection = None],
              [GoodConnectionResponse EXCEPT !.connection =
                  Some([GoodRawConnection EXCEPT !.delay_period = 10])],
              [GoodConnectionResponse EXCEPT !.connection =
                  Some([GoodRawConnection EXCEPT !.counterparty = None])] }
      [] op = "query_packet_commitment" -> PacketResponses(GoodCommitmentResponse)
      [] op = "query_packet_acknowledgement" -> PacketResponses(GoodAcknowledgementResponse)

\* A narrower chain: each query fails, answers completely, or answers with
\* the one field missing whose absence the builders treat differently (the
\* proof height of a channel end, the optional proof of a client state).
BaseAnswers(op) ==
    CASE op = "query_connection_end" -> {QueryFailed, GoodConnectionResponse}
      [] op = "query_channel_end" ->
            { QueryFailed, GoodChannelResponse,
              [GoodChannelResponse EXCEPT !.proof_height = None] }
      [] op = "query_client_state" ->
            { QueryFailed, GoodClientStateResponse,
              [GoodClientStateResponse EXCEPT !.proof = EmptyBytes] }
      [] op = "query_client_consensus" -> {QueryFailed, GoodConsensusResponse}
      [] op = "query_packet_commitment" -> {QueryFailed, GoodCommitmentResponse}
      [] op = "query_packet_acknowledgement" -> {QueryFailed, GoodAcknowledgementResponse}
      [] op = "query_host_consensus_state_proof" -> HostProofResponses

\* The queries the arms await, and those of the packet arms.
AsyncOps ==
    { "query_connection_end", "query_channel_end", "query_client_state",
      "query_client_consensus", "query_packet_commitment",
      "query_packet_acknowledgement", "query_host_consensus_state_proof" }

PacketOps ==
    { "query_channel_end", "query_connection_end", "query_packet_commitment",
      "query_packet_acknowledgement" }

\* A pair of chains, as the answers each kind of query may get.
BaseChain == [op \in AsyncOps |-> BaseAnswers(op)]

PacketChain == [op \in PacketOps |-> PacketAnswers(op)]

\* The queries of the handshake arms, with every answer they may get.
HandshakeOps ==
    { "query_connection_end", "query_channel_end", "query_client_state",
      "query_client_consensus", "query_host_consensus_state_proof" }

HandshakeChain == [op \in HandshakeOps |-> Answers(op)]

\* The synchronous reads: no await, no suspension.
SyncOps == {"client_type"}

\* What a synchronous read may return.
SyncAnswers(op) ==
    CASE op = "client_type" -> ClientTypes

\* ------------------------------------------------- conversions of the arms

Ok(v) == [ok |-> TRUE, v |-> v]
Failed == [ok |-> FALSE]

\* ConnectionEnd::try_from(raw): a raw end without counterparty does not
\* decode; an empty counterparty connection id decodes to None.
ConnectionEnd_try_from(raw) ==
    IF raw.counterparty = None THEN Failed
    ELSE LET cp == Unwrap(raw.counterparty)
         IN Ok([ client_id |-> raw.client_id,
                 versions |-> raw.versions,
                 counterparty |->
                     [ client_id |-> cp.client_id,
                       connection_id |->
                           IF cp.connection_id = "" THEN None ELSE Some(cp.connection_id),
                       prefix |-> cp.prefix ],
                 delay_period |-> raw.delay_period ])

\* ChannelEnd::try_from(raw): a raw end without counterparty does not decode;
\* an empty counterparty channel id decodes to None.
ChannelEnd_try_from(raw) ==
    IF raw.counterparty = None THEN Failed
    ELSE LET cp == Unwrap(raw.counterparty)
         IN Ok([ state |-> raw.state,
                 ordering |-> raw.ordering,
                 counterparty |->
                     [ port_id |-> cp.port_id,
                       channel_id |->
                           IF cp.channel_id = "" THEN None ELSE Some(cp.channel_id) ],
                 connection_hops |-> raw.connection_hops,
                 version |-> raw.version ])

\* AnyClientState::try_from(any): only the known type urls decode.
AnyClientState_try_from(any) ==
    IF any.type_url = "/ibc.lightclients.tendermint.v1.ClientState"
    THEN Ok([latest_height |-> any.latest_height])
    ELSE Failed

\* CommitmentProofBytes::try_from(bytes): empty bytes are no proof.
CommitmentProofBytes_try_from(bytes) ==
    IF bytes = EmptyBytes THEN Failed ELSE Ok(bytes)

\* ConnectionId::from_str: the empty string is no identifier.
ConnectionId_from_str(str) ==
    IF str = "" THEN Failed ELSE Ok(str)

\* ConsensusProof::new(proof, height): a zero height is refused.
ConsensusProof_new(proof, height) ==
    IF is_zero(height) THEN Failed ELSE Ok([proof |-> proof, height |-> height])

\* Mutant: the consensus proof is left out of the proofs.
Proofs_new_NoConsensus(object_proof, client_proof, consensus_proof, other_proof, height) ==
    IF is_zero(height) THEN [ok |-> FALSE]
    ELSE [ ok |-> TRUE,
           v |-> [ object_proof |-> object_proof,
                   client_proof |-> client_proof,
                   consensus_proof |-> <<>>,
                   other_proof |-> other_proof,
                   height |-> height ] ]

\* Proofs::new(object, client, consensus, other, height): a zero height is
\* refused.
Proofs_new(object_proof, client_proof, consensus_proof, other_proof, height) ==
    IF is_zero(height) THEN Failed
    ELSE Ok([ object_proof |-> object_proof,
              client_proof |-> client_proof,
              consensus_proof |-> consensus_proof,
              other_proof |-> other_proof,
              height |-> height ])

\* Any { value, type_url: msg.type_url() }; the encoded value is kept as the
\* message it encodes.
AnyMsg(type_url, msg) == [type_url |-> type_url, value |-> msg]

\* ---------------------------------------------- what a builder does next
\* A builder is the straight-line code of one match arm.  Given the event and
\* the answers `ins` its calls have got so far, it either needs the answer
\* of its next call, or has finished the event.

Await(q) == [t |-> "await", q |-> q]
Skip == [t |-> "skip"]
\* `continue` after a line written to the log.
Logged(line) == [t |-> "skip", log |-> line]
Emit(msg) == [t |-> "emit", msg |-> msg]
Err(why) == [t |-> "err", why |-> why]
Panic(why) == [t |-> "panic", why |-> why]

Value(v) == [t |-> "value", v |-> v]

\* Everything after the first n answers.
Rest(ins, n) == SubSeq(ins, n + 1, Len(ins))

\* query_host_consensus_state_proof(sink, client_state); `ins` are the
\* answers to its own calls.  Ends in Value(bytes), or as the caller must end.
query_host_consensus_state_proof(client_state, ins) ==
    IF Len(ins) < 1 THEN Await(Query("sink", "client_type", None, <<>>)) ELSE
    IF contains_tendermint(ins[1]) THEN Value(EmptyBytes) ELSE
    IF Len(ins) < 2
    THEN Await(Query("sink", "query_host_consensus_state_proof", None, <<client_state>>)) ELSE
    IF ~ins[2].ok THEN Err("query_host_consensus_state_proof") ELSE
    IF ins[2].proof = None THEN Panic("Host chain requires consensus state proof; qed") ELSE
    Value(Unwrap(ins[2].proof))

\* msg.type_url() of each message struct.
TYPE_URL(msg_kind) ==
    CASE msg_kind = "MsgConnectionOpenTry" -> "/ibc.core.connection.v1.MsgConnectionOpenTry"
      [] msg_kind = "MsgConnectionOpenAck" -> "/ibc.core.connection.v1.MsgConnectionOpenAck"
      [] msg_kind = "MsgConnectionOpenConfirm" -> "/ibc.core.connection.v1.MsgConnectionOpenConfirm"
      [] msg_kind = "MsgChannelOpenTry" -> "/ibc.core.channel.v1.MsgChannelOpenTry"
      [] msg_kind = "MsgChannelOpenAck" -> "/ibc.core.channel.v1.MsgChannelOpenAck"
      [] msg_kind = "MsgChannelOpenConfirm" -> "/ibc.core.channel.v1.MsgChannelOpenConfirm"
      [] msg_kind = "MsgChannelCloseConfirm" -> "/ibc.core.channel.v1.MsgChannelCloseConfirm"
      [] msg_kind = "MsgRecvPacket" -> "/ibc.core.channel.v1.MsgRecvPacket"
      [] msg_kind = "MsgAcknowledgement" -> "/ibc.core.channel.v1.MsgAcknowledgement"

\* ------------------------------------------------------ connection builders

\* IbcEvent::OpenInitConnection(open_init) => MsgConnectionOpenTry
OpenInitConnection(open_init, ins) ==
    LET connection_id == Unwrap(open_init.connection_id)
        connection_response == ins[1]
        connection_end == ConnectionEnd_try_from(Unwrap(connection_response.connection))
        counterparty == connection_end.v.counterparty
        connection_proof == CommitmentProofBytes_try_from(connection_response.proof)
        client_state_response == ins[2]
        proof_height == Unwrap(connection_response.proof_height)
        client_state_proof ==
            LET p == CommitmentProofBytes_try_from(client_state_response.proof)
            IN IF p.ok THEN Some(p.v) ELSE None
        client_state == AnyClientState_try_from(Unwrap(client_state_response.client_state))
        consensus_proof == ins[3]
        host == query_host_consensus_state_proof(client_state.v, Rest(ins, 3))
        consensus_bytes == CommitmentProofBytes_try_from(consensus_proof.proof)
        consensus == ConsensusProof_new(consensus_bytes.v, client_state.v.latest_height)
        proofs == Proofs_new(connection_proof.v, client_state_proof, Some(consensus.v),
                             None, proof_height)
    IN
    IF open_init.connection_id = None THEN Skip ELSE
    IF Len(ins) < 1
    THEN Await(Query("source", "query_connection_end", Some(open_init.height),
                     <<connection_id>>)) ELSE
    IF ~connection_response.ok THEN Err("query_connection_end") ELSE
    IF connection_response.connection = None THEN Err("Connection end not found") ELSE
    IF ~connection_end.ok THEN Err("ConnectionEnd::try_from") ELSE
    IF ~connection_proof.ok THEN Err("connection proof") ELSE
    IF Len(ins) < 2
    THEN Await(Query("source", "query_client_state", Some(open_init.height),
                     <<open_init.client_id>>)) ELSE
    IF ~client_state_response.ok THEN Err("query_client_state") ELSE
    IF connection_response.proof_height = None
    THEN Err("Proof height not found in response") ELSE
    IF client_state_response.client_state = None THEN Err("Client state is empty") ELSE
    IF ~client_state.ok THEN Err("AnyClientState::try_from") ELSE
    IF Len(ins) < 3
    THEN Await(Query("source", "query_client_consensus", Some(open_init.height),
                     <<open_init.client_id, client_state.v.latest_height>>)) ELSE
    IF ~consensus_proof.ok THEN Err("query_client_consensus") ELSE
    IF host.t # "value" THEN host ELSE
    IF ~consensus_bytes.ok THEN Err("consensus proof") ELSE
    IF ~consensus.ok THEN Err("ConsensusProof::new") ELSE
    IF ~proofs.ok THEN Err("Proofs::new") ELSE
    Emit(AnyMsg(TYPE_URL("MsgConnectionOpenTry"),
         [ client_id |-> counterparty.client_id,
           client_state |-> Some(client_state.v),
           counterparty |-> [ client_id |-> open_init.client_id,
                              connection_id |-> Some(connection_id),
                              prefix |-> SourceConnectionPrefix ],
           counterparty_versions |-> connection_end.v.versions,
           proofs |-> proofs.v,
           delay_period |-> connection_end.v.delay_period,
           signer |-> SinkAccountId,
           host_consensus_state_proof |-> host.v ]))

\* IbcEvent::OpenTryConnection(open_try) => MsgConnectionOpenAck
OpenTryConnection(open_try, ins) ==
    LET connection_id == Unwrap(open_try.connection_id)
        connection_response == ins[1]
        connection_end == ConnectionEnd_try_from(Unwrap(connection_response.connection))
        counterparty == connection_end.v.counterparty
        connection_proof == CommitmentProofBytes_try_from(connection_response.proof)
        client_state_response == ins[2]
        proof_height == Unwrap(connection_response.proof_height)
        client_state_proof ==
            LET p == CommitmentProofBytes_try_from(client_state_response.proof)
            IN IF p.ok THEN Some(p.v) ELSE None
        client_state == AnyClientState_try_from(Unwrap(client_state_response.client_state))
        consensus_proof == ins[3]
        host == query_host_consensus_state_proof(client_state.v, Rest(ins, 3))
        consensus_bytes == CommitmentProofBytes_try_from(consensus_proof.proof)
        consensus == ConsensusProof_new(consensus_bytes.v, client_state.v.latest_height)
        proofs == Proofs_new(connection_proof.v, client_state_proof, Some(consensus.v),
                             None, proof_height)
    IN
    IF open_try.connection_id = None THEN Skip ELSE
    IF Len(ins) < 1
    THEN Await(Query("source", "query_connection_end", Some(open_try.height),
                     <<connection_id>>)) ELSE
    IF ~connection_response.ok THEN Err("query_connection_end") ELSE
    IF connection_response.connection = None THEN Err("Connection end not found") ELSE
    IF ~connection_end.ok THEN Err("ConnectionEnd::try_from") ELSE
    IF ~connection_proof.ok THEN Err("connection proof") ELSE
    IF Len(ins) < 2
    THEN Await(Query("source", "query_client_state", Some(open_try.height),
                     <<open_try.client_id>>)) ELSE
    IF ~client_state_response.ok THEN Err("query_client_state") ELSE
    IF connection_response.proof_height = None
    THEN Err("Proof height not found in response") ELSE
    IF client_state_response.client_state = None THEN Err("Client state is empty") ELSE
    IF ~client_state.ok THEN Err("AnyClientState::try_from") ELSE
    IF Len(ins) < 3
    THEN Await(Query("source", "query_client_consensus", Some(open_try.height),
                     <<open_try.client_id, client_state.v.latest_height>>)) ELSE
    IF ~consensus_proof.ok THEN Err("query_client_consensus") ELSE
    IF host.t # "value" THEN host ELSE
    IF counterparty.connection_id = None THEN Err("Connection Id not found") ELSE
    IF ~consensus_bytes.ok THEN Err("consensus proof") ELSE
    IF ~consensus.ok THEN Err("ConsensusProof::new") ELSE
    IF ~proofs.ok THEN Err("Proofs::new") ELSE
    IF Len(connection_end.v.versions) = 0 THEN Err("Connection version is missing") ELSE
    Emit(AnyMsg(TYPE_URL("MsgConnectionOpenAck"),
         [ connection_id |-> Unwrap(counterparty.connection_id),
           counterparty_connection_id |-> connection_id,
           client_state |-> Some(client_state.v),
           proofs |-> proofs.v,
           host_consensus_state_proof |-> host.v,
           version |-> connection_end.v.versions[1],
           signer |-> SinkAccountId ]))

\* IbcEvent::OpenAckConnection(open_ack) => MsgConnectionOpenConfirm
OpenAckConnection(open_ack, ins) ==
    LET connection_id == Unwrap(open_ack.connection_id)
        connection_response == ins[1]
        connection_end == ConnectionEnd_try_from(Unwrap(connection_response.connection))
        counterparty == connection_end.v.counterparty
        connection_proof == CommitmentProofBytes_try_from(connection_response.proof)
        proof_height == Unwrap(connection_response.proof_height)
        proofs == Proofs_new(connection_proof.v, None, None, None, proof_height)
    IN
    IF open_ack.connection_id = None THEN Skip ELSE
    IF Len(ins) < 1
    THEN Await(Query("source", "query_connection_end", Some(open_ack.height),
                     <<connection_id>>)) ELSE
    IF ~connection_response.ok THEN Err("query_connection_end") ELSE
    IF connection_response.connection = None THEN Err("Connection end not found") ELSE
    IF ~connection_end.ok THEN Err("ConnectionEnd::try_from") ELSE
    IF ~connection_proof.ok THEN Err("connection proof") ELSE
    IF connection_response.proof_height = None
    THEN Err("Proof height not found in response") ELSE
    IF counterparty.connection_id = None THEN Err("Connection Id not found") ELSE
    IF ~proofs.ok THEN Err("Proofs::new") ELSE
    Emit(AnyMsg(TYPE_URL("MsgConnectionOpenConfirm"),
         [ connection_id |-> Unwrap(counterparty.connection_id),
           proofs |-> proofs.v,
           signer |-> SinkAccountId ]))

\* --------------------------------------------------------- channel builders

\* IbcEvent::OpenInitChannel(open_init) => MsgChannelOpenTry
OpenInitChannel(open_init, ins) ==
    LET channel_id == Unwrap(open_init.channel_id)
        channel_response == ins[1]
        channel_end == ChannelEnd_try_from(Unwrap(channel_response.channel))
        counterparty == channel_end.v.counterparty
        connection_response == ins[2]
        connection_end == Unwrap(connection_response.connection)
        counterparty_connection == Unwrap(connection_end.counterparty)
        hop == ConnectionId_from_str(counterparty_connection.connection_id)
        channel == [ state |-> "TryOpen",
                     ordering |-> channel_end.v.ordering,
                     counterparty |-> [ port_id |-> open_init.port_id,
                                        channel_id |-> Some(channel_id) ],
                     connection_hops |-> <<hop.v>>,
                     version |-> channel_end.v.version ]
        channel_proof == CommitmentProofBytes_try_from(channel_response.proof)
        proof_height == Unwrap(channel_response.proof_height)
        proofs == Proofs_new(channel_proof.v, None, None, None, proof_height)
    IN
    IF open_init.channel_id = None THEN Skip ELSE
    IF Len(ins) < 1
    THEN Await(Query("source", "query_channel_end", Some(open_init.height),
                     <<channel_id, open_init.port_id>>)) ELSE
    IF ~channel_response.ok THEN Err("query_channel_end") ELSE
    IF channel_response.channel = None THEN Err("ChannelEnd not found") ELSE
    IF ~channel_end.ok THEN Panic("Channel end decoding should not fail") ELSE
    IF Len(ins) < 2
    THEN Await(Query("source", "query_connection_end", Some(open_init.height),
                     <<open_init.connection_id>>)) ELSE
    IF ~connection_response.ok THEN Err("query_connection_end") ELSE
    IF connection_response.connection = None THEN Err("Connection end not found") ELSE
    IF connection_end.counterparty = None THEN Err("Connection counterparty not found") ELSE
    IF ~hop.ok THEN Err("ConnectionId::from_str") ELSE
    IF ~channel_proof.ok THEN Err("channel proof") ELSE
    IF channel_response.proof_height = None
    THEN Panic("Proof height should be present") ELSE
    IF ~proofs.ok THEN Err("Proofs::new") ELSE
    Emit(AnyMsg(TYPE_URL("MsgChannelOpenTry"),
         [ port_id |-> counterparty.port_id,
           channel |-> channel,
           counterparty_version |-> channel_end.v.version,
           proofs |-> proofs.v,
           signer |-> SinkAccountId ]))

\* IbcEvent::OpenTryChannel(open_try) => MsgChannelOpenAck
OpenTryChannel(open_try, ins) ==
    LET channel_id == Unwrap(open_try.channel_id)
        channel_response == ins[1]
        channel_end == ChannelEnd_try_from(Unwrap(channel_response.channel))
        counterparty == channel_end.v.counterparty
        channel_proof == CommitmentProofBytes_try_from(channel_response.proof)
        proof_height == Unwrap(channel_response.proof_height)
        proofs == Proofs_new(channel_proof.v, None, None, None, proof_height)
    IN
    IF open_try.channel_id = None THEN Skip ELSE
    IF Len(ins) < 1
    THEN Await(Query("source", "query_channel_end", Some(open_try.height),
                     <<channel_id, open_try.port_id>>)) ELSE
    IF ~channel_response.ok THEN Err("query_channel_end") ELSE
    IF channel_response.channel = None THEN Err("ChannelEnd not found") ELSE
    IF ~channel_end.ok THEN Panic("Channel end decoding should not fail") ELSE
    IF ~channel_proof.ok THEN Err("channel proof") ELSE
    IF channel_response.proof_height = None
    THEN Panic("Proof height should be present") ELSE
    IF ~proofs.ok THEN Err("Proofs::new") ELSE
    IF counterparty.channel_id = None THEN Panic("Expect channel id to be set") ELSE
    Emit(AnyMsg(TYPE_URL("MsgChannelOpenAck"),
         [ port_id |-> counterparty.port_id,
           counterparty_version |-> channel_end.v.version,
           proofs |-> proofs.v,
           channel_id |-> Unwrap(counterparty.channel_id),
           counterparty_channel_id |-> channel_id,
           signer |-> SinkAccountId ]))

\* IbcEvent::OpenAckChannel(open_ack) => MsgChannelOpenConfirm
OpenAckChannel(open_ack, ins) ==
    LET channel_id == Unwrap(open_ack.channel_id)
        channel_response == ins[1]
        channel_end == ChannelEnd_try_from(Unwrap(channel_response.channel))
        counterparty == channel_end.v.counterparty
        channel_proof == CommitmentProofBytes_try_from(channel_response.proof)
        proof_height == Unwrap(channel_response.proof_height)
        proofs == Proofs_new(channel_proof.v, None, None, None, proof_height)
    IN
    IF open_ack.channel_id = None THEN Skip ELSE
    IF Len(ins) < 1
    THEN Await(Query("source", "query_channel_end", Some(open_ack.height),
                     <<channel_id, open_ack.port_id>>)) ELSE
    IF ~channel_response.ok THEN Err("query_channel_end") ELSE
    IF channel_response.channel = None THEN Err("ChannelEnd not found") ELSE
    IF ~channel_end.ok THEN Err("ChannelEnd::try_from") ELSE
    IF ~channel_proof.ok THEN Err("channel proof") ELSE
    IF channel_response.proof_height = None
    THEN Panic("Proof height should be present") ELSE
    IF ~proofs.ok THEN Err("Proofs::new") ELSE
    IF counterparty.channel_id = None THEN Panic("Expect channel id to be set") ELSE
    Emit(AnyMsg(TYPE_URL("MsgChannelOpenConfirm"),
         [ port_id |-> counterparty.port_id,
           proofs |-> proofs.v,
           channel_id |-> Unwrap(counterparty.channel_id),
           signer |-> SinkAccountId ]))

\* IbcEvent::CloseInitChannel(close_init) => MsgChannelCloseConfirm
CloseInitChannel(close_init, ins) ==
    LET channel_id == close_init.channel_id
        channel_response == ins[1]
        channel_end == ChannelEnd_try_from(Unwrap(channel_response.channel))
        counterparty == channel_end.v.counterparty
        channel_proof == CommitmentProofBytes_try_from(channel_response.proof)
        proof_height == Unwrap(channel_response.proof_height)
        proofs == Proofs_new(channel_proof.v, None, None, None, proof_height)
    IN
    IF Len(ins) < 1
    THEN Await(Query("source", "query_channel_end", Some(close_init.height),
                     <<channel_id, close_init.port_id>>)) ELSE
    IF ~channel_response.ok THEN Err("query_channel_end") ELSE
    IF channel_response.channel = None THEN Err("ChannelEnd not found") ELSE
    IF ~channel_end.ok THEN Err("ChannelEnd::try_from") ELSE
    IF ~channel_proof.ok THEN Err("channel proof") ELSE
    IF channel_response.proof_height = None
    THEN Panic("Proof height should be present") ELSE
    IF ~proofs.ok THEN Err("Proofs::new") ELSE
    IF counterparty.channel_id = None THEN Panic("Expect channel id to be set") ELSE
    Emit(AnyMsg(TYPE_URL("MsgChannelCloseConfirm"),
         [ port_id |-> counterparty.port_id,
           proofs |-> proofs.v,
           channel_id |-> Unwrap(counterparty.channel_id),
           signer |-> SinkAccountId ]))

\* ---------------------------------------------------------- packet builders

\* Mutants of the admission gates: a lost negation, a wrong comparison.
RelayGate_Inverted(testing, relay_status) == testing /\ relay_status
SendPacketDelayed_Inverted(connection_end) == connection_end.delay_period = 0
TimeoutGate_WrongComparison(packet) ==
    is_zero(packet.timeout_height) /\ packet.timeout_timestamp # 0
WriteAckDelayed_Inverted(connection_end) == connection_end.delay_period = 0

\* #[cfg(feature = "testing")] if !packet_relay_status() { continue }
RelayGate(testing, relay_status) == testing /\ ~relay_status

\* if !connection_end.delay_period().is_zero() { ...; continue }, SendPacket arm
SendPacketDelayed(connection_end) == connection_end.delay_period # 0

\* if packet.timeout_height.is_zero() && packet.timeout_timestamp.nanoseconds() == 0
TimeoutGate(packet) == is_zero(packet.timeout_height) /\ packet.timeout_timestamp = 0

\* if !connection_end.delay_period().is_zero() { ...; continue }, WriteAcknowledgement arm
WriteAckDelayed(connection_end) == connection_end.delay_period # 0

\* IbcEvent::SendPacket(send_packet) => MsgRecvPacket
SendPacket(send_packet, ins, testing, relay_status) ==
    LET port_id == send_packet.packet.source_port
        channel_id == send_packet.packet.source_channel
        channel_response == ins[1]
        channel_end == ChannelEnd_try_from(Unwrap(channel_response.channel))
        connection_id == channel_end.v.connection_hops[1]
        connection_response == ins[2]
        connection_end == ConnectionEnd_try_from(Unwrap(connection_response.connection))
        seq == send_packet.packet.sequence
        packet == send_packet.packet
        packet_commitment_response == ins[3]
        commitment_proof == CommitmentProofBytes_try_from(packet_commitment_response.proof)
        proof_height == Unwrap(packet_commitment_response.proof_height)
        proofs == Proofs_new(commitment_proof.v, None, None, None, proof_height)
    IN
    IF RelayGate(testing, relay_status) THEN Skip ELSE
    IF Len(ins) < 1
    THEN Await(Query("source", "query_channel_end", Some(send_packet.height),
                     <<channel_id, port_id>>)) ELSE
    IF ~channel_response.ok THEN Err("query_channel_end") ELSE
    IF channel_response.channel = None THEN Err("raw channel end") ELSE
    IF ~channel_end.ok THEN Err("ChannelEnd::try_from") ELSE
    IF Len(channel_end.v.connection_hops) = 0
    THEN Err("Channel end missing connection id") ELSE
    IF Len(ins) < 2
    THEN Await(Query("source", "query_connection_end", Some(send_packet.height),
                     <<connection_id>>)) ELSE
    IF ~connection_response.ok THEN Err("query_connection_end") ELSE
    IF connection_response.connection = None THEN Err("ConnectionEnd not found") ELSE
    IF ~connection_end.ok THEN Err("ConnectionEnd::try_from") ELSE
    IF SendPacketDelayed(connection_end.v)
    THEN Logged("Skipping packet relay because of connection delays") ELSE
    IF TimeoutGate(packet)
    THEN Logged("Skipping packet relay because packet timeout is zero") ELSE
    IF Len(ins) < 3
    THEN Await(Query("source", "query_packet_commitment", Some(send_packet.height),
                     <<port_id, channel_id, seq>>)) ELSE
    IF ~packet_commitment_response.ok THEN Err("query_packet_commitment") ELSE
    IF ~commitment_proof.ok THEN Err("commitment proof") ELSE
    IF packet_commitment_response.proof_height = None
    THEN Panic("Proof height should be present") ELSE
    IF ~proofs.ok THEN Err("Proofs::new") ELSE
    Emit(AnyMsg(TYPE_URL("MsgRecvPacket"),
         [ packet |-> packet,
           proofs |-> proofs.v,
           signer |-> SinkAccountId ]))

\* IbcEvent::WriteAcknowledgement(write_ack) => MsgAcknowledgement
WriteAcknowledgement(write_ack, ins) ==
    LET port_id == write_ack.packet.destination_port
        channel_id == write_ack.packet.destination_channel
        channel_response == ins[1]
        channel_end == ChannelEnd_try_from(Unwrap(channel_response.channel))
        connection_id == channel_end.v.connection_hops[1]
        connection_response == ins[2]
        connection_end == ConnectionEnd_try_from(Unwrap(connection_response.connection))
        seq == write_ack.packet.sequence
        packet == write_ack.packet
        packet_acknowledgement_response == ins[3]
        acknowledgement == write_ack.ack
        commitment_proof ==
            CommitmentProofBytes_try_from(packet_acknowledgement_response.proof)
        proof_height == Unwrap(packet_acknowledgement_response.proof_height)
        proofs == Proofs_new(commitment_proof.v, None, None, None, proof_height)
    IN
    IF Len(ins) < 1
    THEN Await(Query("source", "query_channel_end", Some(write_ack.height),
                     <<channel_id, port_id>>)) ELSE
    IF ~channel_response.ok THEN Err("query_channel_end") ELSE
    IF channel_response.channel = None THEN Err("raw channel end") ELSE
    IF ~channel_end.ok THEN Err("ChannelEnd::try_from") ELSE
    IF Len(channel_end.v.connection_hops) = 0
    THEN Err("Channel end missing connection id") ELSE
    IF Len(ins) < 2
    THEN Await(Query("source", "query_connection_end", Some(write_ack.height),
                     <<connection_id>>)) ELSE
    IF ~connection_response.ok THEN Err("query_connection_end") ELSE
    IF connection_response.connection = None THEN Err("ConnectionEnd not found") ELSE
    IF ~connection_end.ok THEN Err("ConnectionEnd::try_from") ELSE
    IF WriteAckDelayed(connection_end.v)
    THEN Logged("Skipping write acknowledgement because of connection delay") ELSE
    IF Len(ins) < 3
    THEN Await(Query("source", "query_packet_acknowledgement", Some(write_ack.height),
                     <<port_id, channel_id, seq>>)) ELSE
    IF ~packet_acknowledgement_response.ok THEN Err("query_packet_acknowledgement") ELSE
    IF ~commitment_proof.ok THEN Err("commitment proof") ELSE
    IF packet_acknowledgement_response.proof_height = None
    THEN Panic("Proof height should be present") ELSE
    IF ~proofs.ok THEN Err("Proofs::new") ELSE
    Emit(AnyMsg(TYPE_URL("MsgAcknowledgement"),
         [ packet |-> packet,
           acknowledgement |-> acknowledgement,
           proofs |-> proofs.v,
           signer |-> SinkAccountId ]))

\* Mutants of the match: the timeout gate also in the WriteAcknowledgement
\* arm; an error for the unhandled variants; two channel arms swapped.
Arm_AckTimeoutGate(event, ins, testing, relay_status) ==
    CASE event.kind = "OpenInitConnection" -> OpenInitConnection(event, ins)
      [] event.kind = "OpenTryConnection" -> OpenTryConnection(event, ins)
      [] event.kind = "OpenAckConnection" -> OpenAckConnection(event, ins)
      [] event.kind = "OpenInitChannel" -> OpenInitChannel(event, ins)
      [] event.kind = "OpenTryChannel" -> OpenTryChannel(event, ins)
      [] event.kind = "OpenAckChannel" -> OpenAckChannel(event, ins)
      [] event.kind = "CloseInitChannel" -> CloseInitChannel(event, ins)
      [] event.kind = "SendPacket" -> SendPacket(event, ins, testing, relay_status)
      [] event.kind = "WriteAcknowledgement" ->
            IF Len(ins) = 2 /\ WriteAcknowledgement(event, ins).t = "await"
                            /\ TimeoutGate(event.packet)
            THEN Skip ELSE WriteAcknowledgement(event, ins)
      [] OTHER -> Skip

Arm_UnhandledErr(event, ins, testing, relay_status) ==
    CASE event.kind = "OpenInitConnection" -> OpenInitConnection(event, ins)
      [] event.kind = "OpenTryConnection" -> OpenTryConnection(event, ins)
      [] event.kind = "OpenAckConnection" -> OpenAckConnection(event, ins)
      [] event.kind = "OpenInitChannel" -> OpenInitChannel(event, ins)
      [] event.kind = "OpenTryChannel" -> OpenTryChannel(event, ins)
      [] event.kind = "OpenAckChannel" -> OpenAckChannel(event, ins)
      [] event.kind = "CloseInitChannel" -> CloseInitChannel(event, ins)
      [] event.kind = "SendPacket" -> SendPacket(event, ins, testing, relay_status)
      [] event.kind = "WriteAcknowledgement" -> WriteAcknowledgement(event, ins)
      [] OTHER -> Err("unhandled event")

Arm_SwappedArms(event, ins, testing, relay_status) ==
    CASE event.kind = "OpenInitConnection" -> OpenInitConnection(event, ins)
      [] event.kind = "OpenTryConnection" -> OpenTryConnection(event, ins)
      [] event.kind = "OpenAckConnection" -> OpenAckConnection(event, ins)
      [] event.kind = "OpenInitChannel" -> OpenInitChannel(event, ins)
      [] event.kind = "OpenTryChannel" -> OpenAckChannel(event, ins)
      [] event.kind = "OpenAckChannel" -> OpenTryChannel(event, ins)
      [] event.kind = "CloseInitChannel" -> CloseInitChannel(event, ins)
      [] event.kind = "SendPacket" -> SendPacket(event, ins, testing, relay_status)
      [] event.kind = "WriteAcknowledgement" -> WriteAcknowledgement(event, ins)
      [] OTHER -> Skip

\* The arms as written, for the mutants below that alter what one arm ends in.
ArmsAsWritten(event, ins, testing, relay_status) ==
    CASE event.kind = "OpenInitConnection" -> OpenInitConnection(event, ins)
      [] event.kind = "OpenTryConnection" -> OpenTryConnection(event, ins)
      [] event.kind = "OpenAckConnection" -> OpenAckConnection(event, ins)
      [] event.kind = "OpenInitChannel" -> OpenInitChannel(event, ins)
      [] event.kind = "OpenTryChannel" -> OpenTryChannel(event, ins)
      [] event.kind = "OpenAckChannel" -> OpenAckChannel(event, ins)
      [] event.kind = "CloseInitChannel" -> CloseInitChannel(event, ins)
      [] event.kind = "SendPacket" -> SendPacket(event, ins, testing, relay_status)
      [] event.kind = "WriteAcknowledgement" -> WriteAcknowledgement(event, ins)
      [] OTHER -> Skip

\* Mutant: MsgConnectionOpenTry names the source's own client as client_id.
Arm_OpenTryOwnClient(event, ins, testing, relay_status) ==
    LET step == ArmsAsWritten(event, ins, testing, relay_status)
    IN IF event.kind = "OpenInitConnection" /\ step.t = "emit"
       THEN Emit(AnyMsg(step.msg.type_url,
                        [step.msg.value EXCEPT !.client_id = event.client_id]))
       ELSE step

\* Mutant: MsgConnectionOpenAck with its two connection ids exchanged.
Arm_OpenAckSwappedIds(event, ins, testing, relay_status) ==
    LET step == ArmsAsWritten(event, ins, testing, relay_status)
    IN IF event.kind = "OpenTryConnection" /\ step.t = "emit"
       THEN Emit(AnyMsg(step.msg.type_url,
                        [step.msg.value EXCEPT
                            !.connection_id = step.msg.value.counterparty_connection_id,
                            !.counterparty_connection_id = step.msg.value.connection_id]))
       ELSE step

\* Mutant: MsgConnectionOpenAck takes the last connection version.
Arm_OpenAckLastVersion(event, ins, testing, relay_status) ==
    LET step == ArmsAsWritten(event, ins, testing, relay_status)
        versions == Unwrap(ins[1].connection).versions
    IN IF event.kind = "OpenTryConnection" /\ step.t = "emit"
       THEN Emit(AnyMsg(step.msg.type_url,
                        [step.msg.value EXCEPT !.version = versions[Len(versions)]]))
       ELSE step

\* Mutant: the proofs are recorded at the height of the event.
Arm_ProofsAtEventHeight(event, ins, testing, relay_status) ==
    LET step == ArmsAsWritten(event, ins, testing, relay_status)
    IN IF step.t = "emit"
       THEN Emit(AnyMsg(step.msg.type_url,
                        [step.msg.value EXCEPT !.proofs.height = event.height]))
       ELSE step

\* Mutant: the packet arms query the proof before they look at the gates.
Arm_ProofBeforeGates(event, ins, testing, relay_status) ==
    LET step == ArmsAsWritten(event, ins, testing, relay_status)
    IN IF /\ event.kind \in {"SendPacket", "WriteAcknowledgement"}
          /\ step.t = "skip"
          /\ Len(ins) = 2
       THEN Await(Query("source",
                        IF event.kind = "SendPacket" THEN "query_packet_commitment"
                        ELSE "query_packet_acknowledgement",
                        Some(event.height),
                        <<event.packet.source_port, event.packet.source_channel,
                          event.packet.sequence>>))
       ELSE step

\* Mutant: the later queries of a builder are taken at the proof height of
\* its first answer.
Arm_LaterQueriesAtProofHeight(event, ins, testing, relay_status) ==
    LET step == ArmsAsWritten(event, ins, testing, relay_status)
    IN IF /\ step.t = "await"
          /\ step.q.chain = "source"
          /\ Len(ins) >= 1
          /\ ins[1].ok
          /\ ins[1].proof_height # None
       THEN Await([step.q EXCEPT !.at = ins[1].proof_height])
       ELSE step

\* Mutant: MsgChannelOpenTry keeps the connection hops of the source channel.
Arm_OpenTryOwnHops(event, ins, testing, relay_status) ==
    LET step == ArmsAsWritten(event, ins, testing, relay_status)
    IN IF event.kind = "OpenInitChannel" /\ step.t = "emit"
       THEN Emit(AnyMsg(step.msg.type_url,
                        [step.msg.value EXCEPT !.channel.connection_hops =
                            Unwrap(ins[1].channel).connection_hops]))
       ELSE step

\* Mutant: a handshake event without its identifier is an error.
Arm_MissingIdIsError(event, ins, testing, relay_status) ==
    LET step == ArmsAsWritten(event, ins, testing, relay_status)
    IN IF event.kind \in ConnectionKinds \cup ChannelKinds /\ step.t = "skip"
       THEN Err("identifier not found in event")
       ELSE step

\* Mutant: the SendPacket arm looks at the timeout before it queries.
Arm_TimeoutGateFirst(event, ins, testing, relay_status) ==
    LET step == ArmsAsWritten(event, ins, testing, relay_status)
    IN IF /\ event.kind = "SendPacket"
          /\ ~RelayGate(testing, relay_status)
          /\ TimeoutGate(event.packet)
       THEN Logged("Skipping packet relay because packet timeout is zero")
       ELSE step

\* The match of parse_events: the arm of the event's variant; every other
\* variant falls to `_ => continue`.
Arm(event, ins, testing, relay_status) ==
    CASE event.kind = "OpenInitConnection" -> OpenInitConnection(event, ins)
      [] event.kind = "OpenTryConnection" -> OpenTryConnection(event, ins)
      [] event.kind = "OpenAckConnection" -> OpenAckConnection(event, ins)
      [] event.kind = "OpenInitChannel" -> OpenInitChannel(event, ins)
      [] event.kind = "OpenTryChannel" -> OpenTryChannel(event, ins)
      [] event.kind = "OpenAckChannel" -> OpenAckChannel(event, ins)
      [] event.kind = "CloseInitChannel" -> CloseInitChannel(event, ins)
      [] event.kind = "SendPacket" -> SendPacket(event, ins, testing, relay_status)
      [] event.kind = "WriteAcknowledgement" -> WriteAcknowledgement(event, ins)
      [] OTHER -> Skip

\* ------------------------------------------------------------ parse_events

\* Option<Mode>
Modes == {None, Some("Full"), Some("Light")}

\* Mutant: light mode returns before the messages are handed over.
Finalize_LightDrops(msgs, m) ==
    IF m = Some("Light") THEN [ok |-> TRUE, messages |-> <<>>]
    ELSE [ok |-> TRUE, messages |-> msgs]

\* The end of parse_events: "In light mode do not try to query channel state".
Finalize(msgs, m) ==
    IF m = Some("Light") THEN [ok |-> TRUE, messages |-> msgs]
    ELSE [ok |-> TRUE, messages |-> msgs]

\* ------------------------------------------------- the ABCI event decoder
\* (cosmos/src/events.rs)  An ABCI event is [kind, attributes], attributes a
\* sequence of [key, value]; kinds and keys are strings, values are sequences
\* of characters, since the decoder parses them.

Fail(err) == [ok |-> FALSE, err |-> err]

Digits == {"0", "1", "2", "3", "4", "5", "6", "7", "8", "9"}

DigitValue(c) ==
    CASE c = "0" -> 0 [] c = "1" -> 1 [] c = "2" -> 2 [] c = "3" -> 3 [] c = "4" -> 4
      [] c = "5" -> 5 [] c = "6" -> 6 [] c = "7" -> 7 [] c = "8" -> 8 [] c = "9" -> 9

\* The number a sequence of digits writes.
RECURSIVE DecimalValue(_)
DecimalValue(cs) ==
    IF cs = <<>> THEN 0
    ELSE 10 * DecimalValue(SubSeq(cs, 1, Len(cs) - 1)) + DigitValue(cs[Len(cs)])

\* str::parse::<u64>(): a non-empty sequence of digits (the values of the
\* model are far below 2^64).
u64_from_str(cs) ==
    IF cs # <<>> /\ \A n \in 1..Len(cs) : cs[n] \in Digits
    THEN Ok(DecimalValue(cs)) ELSE Failed

\* The position of the first "-" of cs, 0 when it has none.
FirstDash(cs) ==
    IF \E n \in 1..Len(cs) : cs[n] = "-"
    THEN CHOOSE n \in 1..Len(cs) : cs[n] = "-" /\ \A j \in 1..(n - 1) : cs[j] # "-"
    ELSE 0

\* Height::from_str: "<revision_number>-<revision_height>"; anything else is
\* a HeightConversion error that keeps the string.
Height_from_str(cs) ==
    LET d == FirstDash(cs)
        number == u64_from_str(SubSeq(cs, 1, d - 1))
        height == u64_from_str(SubSeq(cs, d + 1, Len(cs)))
    IN IF d # 0 /\ number.ok /\ height.ok
       THEN Ok(Height(number.v, height.v))
       ELSE Fail([detail |-> "HeightConversion", height |-> cs])

\* Identifier parsing (ClientId, ConnectionId, ChannelId, PortId from_str):
\* non-empty, of letters, digits and dashes.
IdentifierChars == Digits \cup {"a", "c", "p", "t", "-"}

Identifier_from_str(cs) ==
    IF cs # <<>> /\ \A n \in 1..Len(cs) : cs[n] \in IdentifierChars
    THEN Ok(cs) ELSE Failed

\* Timestamp::from_str: nanoseconds as u64.
Timestamp_from_str(cs) == u64_from_str(cs)

\* parse_timeout_height(s): Ok(Some(height)), Ok(None) for the literal "0",
\* or the error invalid_timeout_height.
parse_timeout_height(s) ==
    LET parsed == Height_from_str(s)
    IN IF parsed.ok THEN Ok(Some(parsed.v))
       ELSE IF parsed.err.detail = "HeightConversion" /\ parsed.err.height = <<"0">>
            THEN Ok(None)
            ELSE Fail("invalid_timeout_height")

\* Packet::default()
DefaultPacket ==
    [ sequence |-> 0,
      source_port |-> <<"p">>, source_channel |-> <<"c">>,
      destination_port |-> <<"p">>, destination_channel |-> <<"c">>,
      data |-> <<>>,
      timeout_height |-> Height(0, 0),
      timeout_timestamp |-> 0 ]

\* One turn of the loop of extract_packet_and_write_ack_from_tx: the match on
\* the key of `tag`, on the accumulator acc = Ok([packet, write_ack]).
PacketTag(acc, tag) ==
    LET value == tag.value
        packet == acc.v.packet
        id == Identifier_from_str(value)
        seq == u64_from_str(value)
        timeout == parse_timeout_height(value)
        timestamp == Timestamp_from_str(value)
        With(pkt) == Ok([packet |-> pkt, write_ack |-> acc.v.write_ack])
    IN CASE tag.key = "packet_src_port" ->
              IF id.ok THEN With([packet EXCEPT !.source_port = id.v])
              ELSE Fail("identifier")
         [] tag.key = "packet_src_channel" ->
              IF id.ok THEN With([packet EXCEPT !.source_channel = id.v])
              ELSE Fail("identifier")
         [] tag.key = "packet_dst_port" ->
              IF id.ok THEN With([packet EXCEPT !.destination_port = id.v])
              ELSE Fail("identifier")
         [] tag.key = "packet_dst_channel" ->
              IF id.ok THEN With([packet EXCEPT !.destination_channel = id.v])
              ELSE Fail("identifier")
         [] tag.key = "packet_sequence" ->
              IF seq.ok THEN With([packet EXCEPT !.sequence = seq.v])
              ELSE Fail("invalid_string_as_sequence")
         [] tag.key = "packet_timeout_height" ->
              IF ~timeout.ok THEN Fail(timeout.err)
              ELSE IF timeout.v = None THEN Fail("missing_height")
              ELSE With([packet EXCEPT !.timeout_height = Unwrap(timeout.v)])
         [] tag.key = "packet_timeout_timestamp" ->
              IF timestamp.ok THEN With([packet EXCEPT !.timeout_timestamp = timestamp.v])
              ELSE Fail("invalid_packet_timestamp")
         [] tag.key = "packet_data" -> With([packet EXCEPT !.data = value])
         [] tag.key = "packet_ack" -> Ok([packet |-> packet, write_ack |-> value])
         [] OTHER -> acc

\* extract_packet_and_write_ack_from_tx over the first n attributes: the
\* first failing tag ends the loop.
RECURSIVE extract_packet_and_write_ack_from_tx(_, _)
extract_packet_and_write_ack_from_tx(attributes, n) ==
    IF n = 0 THEN Ok([packet |-> DefaultPacket, write_ack |-> <<>>])
    ELSE LET acc == extract_packet_and_write_ack_from_tx(attributes, n - 1)
         IN IF acc.ok THEN PacketTag(acc, attributes[n]) ELSE acc

\* ClientType::from_str: only the known client types parse.
KnownClientTypes == { <<"0", "7", "-", "t">>, <<"1", "0", "-", "a">> }

ClientType_from_str(cs) == IF cs \in KnownClientTypes THEN Ok(cs) ELSE Failed

\* ClientAttributes::default()
DefaultClientAttributes ==
    [ height |-> Height(0, 0),
      client_id |-> <<"c">>,
      client_type |-> <<"0", "7", "-", "t">>,
      consensus_height |-> Height(0, 0) ]

\* One turn of the loop of client_extract_attributes_from_tx.
ClientTag(acc, tag) ==
    LET value == tag.value
        attr == acc.v
        id == Identifier_from_str(value)
        type == ClientType_from_str(value)
        parsed == Height_from_str(value)
    IN CASE tag.key = "client_id" ->
              IF id.ok THEN Ok([attr EXCEPT !.client_id = id.v])
              ELSE Fail("invalid_client_identifier")
         [] tag.key = "client_type" ->
              IF type.ok THEN Ok([attr EXCEPT !.client_type = type.v])
              ELSE Fail("unknown_client_type")
         [] tag.key = "consensus_height" ->
              IF parsed.ok THEN Ok([attr EXCEPT !.consensus_height = parsed.v])
              ELSE Fail("invalid_string_as_height")
         [] tag.key = "height" ->
              IF parsed.ok THEN Ok([attr EXCEPT !.height = parsed.v])
              ELSE Fail("invalid_string_as_height")
         [] OTHER -> acc

RECURSIVE ClientTags(_, _)
ClientTags(attributes, n) ==
    IF n = 0 THEN Ok(DefaultClientAttributes)
    ELSE LET acc == ClientTags(attributes, n - 1)
         IN IF acc.ok THEN ClientTag(acc, attributes[n]) ELSE acc

\* Mutant: the height of the block is never substituted.
client_extract_attributes_from_tx_NoFallback(event, height) ==
    ClientTags(event.attributes, Len(event.attributes))

\* client_extract_attributes_from_tx(event, height): the attributes, with the
\* fallback height where the event gave none (or the zero height).
client_extract_attributes_from_tx(event, height) ==
    LET attr == ClientTags(event.attributes, Len(event.attributes))
    IN IF ~attr.ok THEN attr
       ELSE IF attr.v.height = Height(0, 0)
            THEN Ok([attr.v EXCEPT !.height = height])
            ELSE attr

\* hex::decode: an even number of hexadecimal digits, two to a byte.
HexChars == Digits \cup {"a", "c"}

hex_decode(cs) ==
    IF Len(cs) % 2 = 0 /\ \A n \in 1..Len(cs) : cs[n] \in HexChars
    THEN Ok([n \in 1..(Len(cs) \div 2) |-> <<cs[2 * n - 1], cs[2 * n]>>])
    ELSE Failed

\* decode_header(bytes): the bytes of a header begin with the tag of its
\* first field; the header is kept as the bytes after the tag.
decode_header(header_bytes) ==
    IF header_bytes # <<>> /\ header_bytes[1] = <<"0", "a">>
    THEN Ok([signed_header |-> Rest(header_bytes, 1)])
    ELSE Fail("decode")

\* Header::encode_vec
Header_encode_vec(header) == <<<<"0", "a">>>> \o header.signed_header

\* extract_header_from_tx(event), from the n-th attribute on: the first
\* "header" attribute decides.
RECURSIVE HeaderFrom(_, _)
HeaderFrom(attributes, n) ==
    IF n > Len(attributes) THEN Fail("missing_raw_header")
    ELSE IF attributes[n].key = "header"
         THEN LET header_bytes == hex_decode(attributes[n].value)
              IN IF ~header_bytes.ok THEN Fail("malformed_header")
                 ELSE decode_header(header_bytes.v)
         ELSE HeaderFrom(attributes, n + 1)

extract_header_from_tx(event) == HeaderFrom(event.attributes, 1)

\* update_client_try_from_abci_event: the header is attached when it could
\* be extracted (`.ok()`).
update_client_try_from_abci_event(abci_event, height) ==
    LET attributes == client_extract_attributes_from_tx(abci_event, height)
        header == extract_header_from_tx(abci_event)
    IN IF ~attributes.ok THEN attributes
       ELSE Ok([ common |-> attributes.v,
                 header |-> IF header.ok THEN Some(Header_encode_vec(header.v))
                            ELSE None ])

\* push_wasm_code_try_from_abci_event over the first n attributes: the code
\* id, None while no attribute gave one.
RECURSIVE WasmCodeId(_, _)
WasmCodeId(attributes, n) ==
    IF n = 0 THEN Ok(None)
    ELSE LET acc == WasmCodeId(attributes, n - 1)
             code_id == hex_decode(attributes[n].value)
         IN IF ~acc.ok THEN acc
            ELSE IF attributes[n].key = "code_id"
                 THEN IF code_id.ok THEN Ok(Some(code_id.v)) ELSE Fail("from_hex_error")
                 ELSE acc

push_wasm_code_try_from_abci_event(abci_event) ==
    LET code_id == WasmCodeId(abci_event.attributes, Len(abci_event.attributes))
    IN IF ~code_id.ok THEN code_id
       ELSE IF code_id.v = None THEN Fail("missing_key")
       ELSE Ok(Unwrap(code_id.v))

\* ConnectionAttributes::default()
DefaultConnectionAttributes ==
    [ height |-> Height(0, 0),
      connection_id |-> None,
      client_id |-> <<"c">>,
      counterparty_connection_id |-> None,
      counterparty_client_id |-> <<"c">> ]

\* value.parse().ok()
ParsedOrNone(parsed) == IF parsed.ok THEN Some(parsed.v) ELSE None

\* One turn of the loop of connection_extract_attributes_from_tx.
ConnectionTag(acc, tag) ==
    LET value == tag.value
        attr == acc.v
        id == Identifier_from_str(value)
        parsed == Height_from_str(value)
    IN CASE tag.key = "connection_id" ->
              Ok([attr EXCEPT !.connection_id = ParsedOrNone(id)])
         [] tag.key = "client_id" ->
              IF id.ok THEN Ok([attr EXCEPT !.client_id = id.v])
              ELSE Fail("invalid_identifier")
         [] tag.key = "counterparty_connection_id" ->
              Ok([attr EXCEPT !.counterparty_connection_id = ParsedOrNone(id)])
         [] tag.key = "counterparty_client_id" ->
              IF id.ok THEN Ok([attr EXCEPT !.counterparty_client_id = id.v])
              ELSE Fail("invalid_identifier")
         [] tag.key = "height" ->
              IF parsed.ok THEN Ok([attr EXCEPT !.height = parsed.v])
              ELSE Fail("invalid_packet_height")
         [] OTHER -> acc

RECURSIVE ConnectionTags(_, _)
ConnectionTags(attributes, n) ==
    IF n = 0 THEN Ok(DefaultConnectionAttributes)
    ELSE LET acc == ConnectionTags(attributes, n - 1)
         IN IF acc.ok THEN ConnectionTag(acc, attributes[n]) ELSE acc

connection_extract_attributes_from_tx(event) ==
    ConnectionTags(event.attributes, Len(event.attributes))

\* ChannelAttributes::default()
DefaultChannelAttributes ==
    [ height |-> Height(0, 0),
      port_id |-> <<"p">>,
      channel_id |-> None,
      connection_id |-> <<"c">>,
      counterparty_port_id |-> <<"p">>,
      counterparty_channel_id |-> None ]

\* One turn of the loop of channel_extract_attributes_from_tx.
ChannelTag(acc, tag) ==
    LET value == tag.value
        attr == acc.v
        id == Identifier_from_str(value)
        parsed == Height_from_str(value)
    IN CASE tag.key = "port_id" ->
              IF id.ok THEN Ok([attr EXCEPT !.port_id = id.v]) ELSE Fail("identifier")
         [] tag.key = "channel_id" ->
              Ok([attr EXCEPT !.channel_id = ParsedOrNone(id)])
         [] tag.key = "connection_id" ->
              IF id.ok THEN Ok([attr EXCEPT !.connection_id = id.v])
              ELSE Fail("identifier")
         [] tag.key = "counterparty_port_id" ->
              IF id.ok THEN Ok([attr EXCEPT !.counterparty_port_id = id.v])
              ELSE Fail("identifier")
         [] tag.key = "counterparty_channel_id" ->
              Ok([attr EXCEPT !.counterparty_channel_id = ParsedOrNone(id)])
         [] tag.key = "height" ->
              IF parsed.ok THEN Ok([attr EXCEPT !.height = parsed.v])
              ELSE Fail("invalid_packet_height")
         [] OTHER -> acc

RECURSIVE ChannelTags(_, _)
ChannelTags(attributes, n) ==
    IF n = 0 THEN Ok(DefaultChannelAttributes)
    ELSE LET acc == ChannelTags(attributes, n - 1)
         IN IF acc.ok THEN ChannelTag(acc, attributes[n]) ELSE acc

channel_extract_attributes_from_tx(event) ==
    ChannelTags(event.attributes, Len(event.attributes))

\* channel_events::{OpenInit, .., CloseConfirm}::try_from(attrs): CloseInit
\* needs its channel id.
ChannelEvent_try_from(variant, attrs) ==
    IF variant = "CloseInitChannel" /\ attrs.channel_id = None
    THEN Fail("implementation_specific")
    ELSE Ok(attrs)

\* abci_event.kind.parse::<IbcEventType>(): the event types and their names.
IbcEventType_from_str(kind) ==
    CASE kind = "new_block" -> Ok("NewBlock")
      [] kind = "create_client" -> Ok("CreateClient")
      [] kind = "update_client" -> Ok("UpdateClient")
      [] kind = "upgrade_client" -> Ok("UpgradeClient")
      [] kind = "client_misbehaviour" -> Ok("ClientMisbehaviour")
      [] kind = "push_wasm_code" -> Ok("PushWasmCode")
      [] kind = "connection_open_init" -> Ok("OpenInitConnection")
      [] kind = "connection_open_try" -> Ok("OpenTryConnection")
      [] kind = "connection_open_ack" -> Ok("OpenAckConnection")
      [] kind = "connection_open_confirm" -> Ok("OpenConfirmConnection")
      [] kind = "channel_open_init" -> Ok("OpenInitChannel")
      [] kind = "channel_open_try" -> Ok("OpenTryChannel")
      [] kind = "channel_open_ack" -> Ok("OpenAckChannel")
      [] kind = "channel_open_confirm" -> Ok("OpenConfirmChannel")
      [] kind = "channel_close_init" -> Ok("CloseInitChannel")
      [] kind = "channel_close_confirm" -> Ok("CloseConfirmChannel")
      [] kind = "send_packet" -> Ok("SendPacket")
      [] kind = "recv_packet" -> Ok("ReceivePacket")
      [] kind = "write_acknowledgement" -> Ok("WriteAck")
      [] kind = "acknowledge_packet" -> Ok("AckPacket")
      [] kind = "timeout_packet" -> Ok("Timeout")
      [] kind = "timeout_packet_on_close" -> Ok("TimeoutOnClose")
      [] kind = "app_module" -> Ok("AppModule")
      [] kind = "empty" -> Ok("Empty")
      [] kind = "chain_error" -> Ok("ChainError")
      [] OTHER -> Failed

\* A debug_assert_eq! that failed: the decoder panics (debug builds only).
Aborted(why) == [ok |-> FALSE, panic |-> why]

\* {send,acknowledge,timeout}_packet_try_from_abci_event: the packet of the
\* event at `height`; "This event should not have a write ack."
PacketEvent_try_from_abci_event(variant, abci_event, height, debug_assertions) ==
    LET extracted == extract_packet_and_write_ack_from_tx(
                         abci_event.attributes, Len(abci_event.attributes))
    IN IF ~extracted.ok
       THEN Fail([error |-> "abci_conversion_failed", kind |-> abci_event.kind])
       ELSE IF debug_assertions /\ Len(extracted.v.write_ack) # 0
            THEN Aborted("debug_assert_eq!(write_ack.len(), 0)")
            ELSE Ok([kind |-> variant, packet |-> extracted.v.packet, height |-> height])

\* write_acknowledgement_try_from_abci_event
write_acknowledgement_try_from_abci_event(abci_event, height) ==
    LET extracted == extract_packet_and_write_ack_from_tx(
                         abci_event.attributes, Len(abci_event.attributes))
    IN IF ~extracted.ok
       THEN Fail([error |-> "abci_conversion_failed", kind |-> abci_event.kind])
       ELSE Ok([ kind |-> "WriteAcknowledgement", packet |-> extracted.v.packet,
                 ack |-> extracted.v.write_ack, height |-> height ])

\* Ok(IbcEvent::Variant(attrs)), or the extractor's error under map_err.
Wrapped(variant, extracted, wrap) ==
    IF extracted.ok THEN Ok([kind |-> variant, attributes |-> extracted.v])
    ELSE Fail([error |-> wrap, cause |-> extracted.err])

\* channel_*_try_from_abci_event
ChannelEvent_try_from_abci_event(variant, abci_event) ==
    LET attrs == channel_extract_attributes_from_tx(abci_event)
    IN IF attrs.ok THEN ChannelEvent_try_from(variant, attrs.v) ELSE attrs

\* Mutant: the match has an arm for ReceivePacket, which calls
\* recv_packet_try_from_abci_event.
ibc_event_try_from_abci_event_WithRecv(abci_event, height, debug_assertions) ==
    LET type == IbcEventType_from_str(abci_event.kind)
    IN IF type.ok /\ type.v = "ReceivePacket"
       THEN PacketEvent_try_from_abci_event("ReceivePacket", abci_event, height,
                                            debug_assertions)
       ELSE Fail([error |-> "unsupported_abci_event", kind |-> abci_event.kind])

\* Mutant: an unrecognized kind decodes to an event that carries nothing.
ibc_event_try_from_abci_event_Lenient(abci_event, height, debug_assertions) ==
    LET type == IbcEventType_from_str(abci_event.kind)
    IN IF type.ok /\ type.v = "SendPacket"
       THEN PacketEvent_try_from_abci_event("SendPacket", abci_event, height,
                                            debug_assertions)
       ELSE Ok([kind |-> "Empty", attributes |-> abci_event.kind])

\* ibc_event_try_from_abci_event(abci_event, height): the match on the parsed
\* kind; debug_assertions tells a debug build from a release build.
ibc_event_try_from_abci_event(abci_event, height, debug_assertions) ==
    LET type == IbcEventType_from_str(abci_event.kind)
        variant == IF type.ok THEN type.v ELSE "unknown"
    IN CASE variant = "CreateClient" ->
              Wrapped("CreateClient",
                      client_extract_attributes_from_tx(abci_event, height), "client")
         [] variant = "UpdateClient" ->
              LET update == update_client_try_from_abci_event(abci_event, height)
              IN IF update.ok
                 THEN Ok([ kind |-> "UpdateClient", attributes |-> update.v.common,
                           header |-> update.v.header ])
                 ELSE Fail([error |-> "client", cause |-> update.err])
         [] variant = "UpgradeClient" ->
              Wrapped("UpgradeClient",
                      client_extract_attributes_from_tx(abci_event, height), "client")
         [] variant = "ClientMisbehaviour" ->
              Wrapped("ClientMisbehaviour",
                      client_extract_attributes_from_tx(abci_event, height), "client")
         [] variant = "PushWasmCode" ->
              LET code == push_wasm_code_try_from_abci_event(abci_event)
              IN IF code.ok THEN Ok([kind |-> "PushWasmCode", code_id |-> code.v])
                 ELSE code
         [] variant \in { "OpenInitConnection", "OpenTryConnection",
                          "OpenAckConnection", "OpenConfirmConnection" } ->
              Wrapped(variant, connection_extract_attributes_from_tx(abci_event),
                      "connection")
         [] variant \in { "OpenInitChannel", "OpenTryChannel", "OpenAckChannel",
                          "OpenConfirmChannel", "CloseInitChannel",
                          "CloseConfirmChannel" } ->
              Wrapped(variant, ChannelEvent_try_from_abci_event(variant, abci_event),
                      "channel")
         [] variant = "SendPacket" ->
              PacketEvent_try_from_abci_event("SendPacket", abci_event, height,
                                              debug_assertions)
         [] variant = "WriteAck" ->
              write_acknowledgement_try_from_abci_event(abci_event, height)
         [] variant = "AckPacket" ->
              PacketEvent_try_from_abci_event("AcknowledgePacket", abci_event, height,
                                              debug_assertions)
         [] variant = "Timeout" ->
              PacketEvent_try_from_abci_event("TimeoutPacket", abci_event, height,
                                              debug_assertions)
         [] OTHER ->
              Fail([error |-> "unsupported_abci_event", kind |-> abci_event.kind])

\* The kinds of the ABCI events handed to the decoder: the names of the IBC
\* event types and two that are none.
AbciKinds ==
    { "new_block", "create_client", "update_client", "upgrade_client",
      "client_misbehaviour", "push_wasm_code",
      "connection_open_init", "connection_open_try", "connection_open_ack",
      "connection_open_confirm",
      "channel_open_init", "channel_open_try", "channel_open_ack",
      "channel_open_confirm", "channel_close_init", "channel_close_confirm",
      "send_packet", "recv_packet", "write_acknowledgement", "acknowledge_packet",
      "timeout_packet", "timeout_packet_on_close", "app_module", "empty",
      "chain_error", "quantum_teleport", "" }

Tag(key, value) == [key |-> key, value |-> value]

\* The attributes the events may carry: well-formed and ill-formed values of
\* the keys the extractors match, and a key none of them knows.
AbciTags ==
    { Tag("packet_sequence", <<"7">>), Tag("packet_sequence", <<"x">>),
      Tag("packet_timeout_height", <<"0">>),
      Tag("packet_timeout_height", <<"1", "-", "7">>),
      Tag("packet_timeout_height", <<"0", "-", "0">>),
      Tag("packet_timeout_height", <<"7">>),
      Tag("packet_timeout_height", <<"x">>),
      Tag("packet_timeout_timestamp", <<"5">>),
      Tag("packet_src_port", <<"p", "1">>),
      Tag("packet_dst_channel", <<>>),
      Tag("packet_data", <<"x", "y">>),
      Tag("packet_ack", <<"a">>),
      Tag("client_id", <<"c", "1">>),
      Tag("client_type", <<"1", "0", "-", "a">>),
      Tag("consensus_height", <<"1", "-", "5">>),
      Tag("height", <<"2", "-", "9">>), Tag("height", <<"0", "-", "0">>),
      Tag("height", <<"x">>),
      Tag("header", <<"0", "a", "c", "c">>), Tag("header", <<"c", "c">>),
      Tag("header", <<"x">>),
      Tag("code_id", <<"a", "c">>),
      Tag("connection_id", <<"c", "-", "0">>), Tag("connection_id", <<>>),
      Tag("port_id", <<"p", "1">>),
      Tag("channel_id", <<"c", "-", "1">>),
      Tag("memo", <<"x">>) }

AbciEvents ==
    [ kind : AbciKinds,
      attributes : UNION { [1..n -> AbciTags] : n \in 0..MaxAttributes } ]

\* The heights of the blocks the events may be found in.
BlockHeights == {Height(1, 20), Height(2, 3)}

VARIABLES
    events,     \* the Vec<IbcEvent> argument
    mode,       \* the Option<Mode> argument
    testing,    \* whether the build has feature "testing"
    packet_relay_enabled,  \* the process-wide flag packet_relay_status() reads
    idx,        \* position of the for loop in events (1-based)
    ins,        \* answers the builder of events[idx] has got so far
    inflight,   \* the awaited query, if the task is suspended on one
    messages,   \* the local `messages` vector
    origin,     \* origin[k]: position of the event that pushed messages[k]
    queries,    \* every query issued so far, with the position of its event
    hist,       \* hist[i]: the answers the builder of events[i] consumed
    pc,         \* "run", "done" (returned) or "panicked"
    result,     \* what parse_events returned, None before
    abci_event, \* the AbciEvent argument of the decoder, None when none is decoded
    abci_height,  \* its `height` argument: the height to fall back on
    debug_assertions,  \* whether the build keeps debug_assert!
    decoded     \* what ibc_event_try_from_abci_event returned, None before

vars == <<events, mode, testing, packet_relay_enabled, idx, ins, inflight, messages, origin, queries,
          hist, pc, result, abci_event, abci_height, debug_assertions, decoded>>

\* The variables of the decoder, which parse_events leaves alone.
decoder_vars == <<abci_event, abci_height, debug_assertions, decoded>>

\* The variables of parse_events, which the decoder leaves alone.
parse_vars == <<events, mode, testing, packet_relay_enabled, idx, ins, inflight, messages,
                origin, queries, hist, pc, result>>

\* All event lists of length at most n over a pool.
EventLists(pool, n) == UNION { [1..k -> pool] : k \in 0..n }

\* parse_events is called with an event list over `pool` of at most n events
\* and a mode of `modes`, in a build of `builds` (TRUE: feature "testing").
InitOver(pool, n, modes, builds) ==
    /\ events \in EventLists(pool, n)
    /\ mode \in modes
    /\ testing \in builds
    /\ packet_relay_enabled \in (IF testing THEN BOOLEAN ELSE {TRUE})
    /\ idx = 1
    /\ ins = <<>>
    /\ inflight = None
    /\ messages = <<>>
    /\ origin = <<>>
    /\ queries = <<>>
    /\ hist = <<>>
    /\ pc = "run"
    /\ result = None
    /\ abci_event = None
    /\ abci_height = None
    /\ debug_assertions = FALSE
    /\ decoded = None

\* One event of every variant: identifiers present, packets with or without a
\* timeout.
BaseEvents ==
    { e \in AllEvents :
        /\ e.kind \in ConnectionKinds => e.connection_id # None
        /\ e.kind \in ChannelKinds => e.channel_id # None
        /\ e.kind \in {"SendPacket", "WriteAcknowledgement"} =>
               e.packet.timeout_timestamp = 0 }

Init == InitOver(BaseEvents, MaxEvents, Modes, {FALSE})

\* Mutant: the loop body runs on while a query is awaited.
InLoop_NotSuspended == pc = "run" /\ idx <= Len(events)

InLoop == pc = "run" /\ inflight = None /\ idx <= Len(events)

\* What the builder of the current event does next.
Step == Arm(events[idx], ins, testing, packet_relay_enabled)

\* The builder reaches an `.await` on a chain query: the query is issued and
\* the task suspends.
IssueQuery ==
    /\ InLoop
    /\ Step.t = "await"
    /\ Step.q.op \notin SyncOps
    /\ inflight' = Some(Step.q)
    /\ queries' = Append(queries, [event |-> idx, q |-> Step.q])
    /\ UNCHANGED <<events, mode, testing, packet_relay_enabled, idx, ins, messages,
                   origin, hist, pc, result>>
    /\ UNCHANGED decoder_vars

\* The awaited query completes with one of the answers the chain may give.
QueryReturns(chain) ==
    /\ pc = "run"
    /\ inflight # None
    /\ \E r \in chain[Unwrap(inflight).op] : ins' = Append(ins, r)
    /\ inflight' = None
    /\ UNCHANGED <<events, mode, testing, packet_relay_enabled, idx, messages, origin,
                   queries, hist, pc, result>>
    /\ UNCHANGED decoder_vars

\* A synchronous read of the sink: sink.client_type().
SyncRead ==
    /\ InLoop
    /\ Step.t = "await"
    /\ Step.q.op \in SyncOps
    /\ \E v \in SyncAnswers(Step.q.op) : ins' = Append(ins, v)
    /\ UNCHANGED <<events, mode, testing, packet_relay_enabled, idx, inflight,
                   messages, origin, queries, hist, pc, result>>
    /\ UNCHANGED decoder_vars

\* Mutant: the message is pushed twice.
PushMessage_Twice ==
    /\ InLoop
    /\ Step.t = "emit"
    /\ messages' = messages \o <<Step.msg, Step.msg>>
    /\ origin' = origin \o <<idx, idx>>
    /\ hist' = Append(hist, ins)
    /\ idx' = idx + 1
    /\ ins' = <<>>
    /\ UNCHANGED <<events, mode, testing, packet_relay_enabled, inflight, queries, pc,
                   result>>
    /\ UNCHANGED decoder_vars

\* Mutant: the message is inserted at the front of the vector.
PushMessage_Prepend ==
    /\ InLoop
    /\ Step.t = "emit"
    /\ messages' = <<Step.msg>> \o messages
    /\ origin' = <<idx>> \o origin
    /\ hist' = Append(hist, ins)
    /\ idx' = idx + 1
    /\ ins' = <<>>
    /\ UNCHANGED <<events, mode, testing, packet_relay_enabled, inflight, queries, pc,
                   result>>
    /\ UNCHANGED decoder_vars

\* messages.push(msg), then the next event.
PushMessage ==
    /\ InLoop
    /\ Step.t = "emit"
    /\ messages' = Append(messages, Step.msg)
    /\ origin' = Append(origin, idx)
    /\ hist' = Append(hist, ins)
    /\ idx' = idx + 1
    /\ ins' = <<>>
    /\ UNCHANGED <<events, mode, testing, packet_relay_enabled, inflight, queries, pc,
                   result>>
    /\ UNCHANGED decoder_vars

\* Mutant: an arm that ends without a message leaves the loop (`break`).
Continue_Break ==
    /\ InLoop
    /\ Step.t = "skip"
    /\ hist' = Append(hist, ins)
    /\ idx' = Len(events) + 1
    /\ ins' = <<>>
    /\ UNCHANGED <<events, mode, testing, packet_relay_enabled, inflight, messages,
                   origin, queries, pc, result>>
    /\ UNCHANGED decoder_vars

\* `continue`, or an arm that ends without a message.
Continue ==
    /\ InLoop
    /\ Step.t = "skip"
    /\ hist' = Append(hist, ins)
    /\ idx' = idx + 1
    /\ ins' = <<>>
    /\ UNCHANGED <<events, mode, testing, packet_relay_enabled, inflight, messages,
                   origin, queries, pc, result>>
    /\ UNCHANGED decoder_vars

\* Mutant: a failed query is forgotten and issued again.
ReturnErr_Retry ==
    /\ InLoop
    /\ Step.t = "err"
    /\ ins # <<>>
    /\ ins' = SubSeq(ins, 1, Len(ins) - 1)
    /\ UNCHANGED <<events, mode, testing, packet_relay_enabled, idx, inflight,
                   messages, origin, queries, hist, pc, result>>
    /\ UNCHANGED decoder_vars

\* A `?` returns the error; the local messages vector is dropped.
ReturnErr ==
    /\ InLoop
    /\ Step.t = "err"
    /\ hist' = Append(hist, ins)
    /\ pc' = "done"
    /\ result' = Some([ok |-> FALSE, why |-> Step.why])
    /\ UNCHANGED <<events, mode, testing, packet_relay_enabled, idx, ins, inflight,
                   messages, origin, queries>>
    /\ UNCHANGED decoder_vars

\* An `expect` on None, or on a failed decoding, panics: the task unwinds and
\* parse_events returns nothing.
PanicUnwind ==
    /\ InLoop
    /\ Step.t = "panic"
    /\ hist' = Append(hist, ins)
    /\ pc' = "panicked"
    /\ UNCHANGED <<events, mode, testing, packet_relay_enabled, idx, ins, inflight,
                   messages, origin, queries, result>>
    /\ UNCHANGED decoder_vars

\* The loop is over: Ok(messages).
ReturnOk ==
    /\ pc = "run"
    /\ inflight = None
    /\ idx > Len(events)
    /\ pc' = "done"
    /\ result' = Some(Finalize(messages, mode))
    /\ UNCHANGED <<events, mode, testing, packet_relay_enabled, idx, ins, inflight,
                   messages, origin, queries, hist>>
    /\ UNCHANGED decoder_vars

\* Event lists over every variant in the production build, against chains
\* that answer each query with a failure, a complete response or a response
\* lacking a field.
Next ==
    \/ IssueQuery
    \/ QueryReturns(BaseChain)
    \/ SyncRead
    \/ PushMessage
    \/ Continue
    \/ ReturnErr
    \/ PanicUnwind
    \/ ReturnOk

Spec == Init /\ [][Next]_vars

\* The task is polled until it completes and every call to a chain returns:
\* no step that can be taken is put off forever.
SpecLive == Init /\ [][Next]_vars /\ WF_vars(Next)

\* Packet events (and one unhandled event) in both builds, against the
\* answers of the queries of the packet arms.
InitPacket ==
    InitOver(SendPacketEvents \cup WriteAckEvents
                 \cup {e \in UnhandledEvents : e.kind = "ReceivePacket"},
             MaxPacketEvents, {None}, BOOLEAN)

\* The packet arms read nothing synchronously from the sink.
NextPacket ==
    \/ IssueQuery
    \/ QueryReturns(PacketChain)
    \/ PushMessage
    \/ Continue
    \/ ReturnErr
    \/ PanicUnwind
    \/ ReturnOk

SpecPacket == InitPacket /\ [][NextPacket]_vars

\* Mutant: a cancelled call hands over what it had accumulated.
Cancel_DeliversPartial ==
    /\ pc = "run"
    /\ inflight # None
    /\ inflight' = None
    /\ pc' = "cancelled"
    /\ result' = Some(Finalize(messages, mode))
    /\ UNCHANGED <<events, mode, testing, packet_relay_enabled, idx, ins, messages,
                   origin, queries, hist>>
    /\ UNCHANGED decoder_vars

\* The task is cancelled while parse_events is suspended at an .await: the
\* future is dropped with its locals (the awaited query, `messages`), and
\* nothing is returned.
Cancel ==
    /\ pc = "run"
    /\ inflight # None
    /\ inflight' = None
    /\ pc' = "cancelled"
    /\ UNCHANGED <<events, mode, testing, packet_relay_enabled, idx, ins, messages,
                   origin, queries, hist, result>>
    /\ UNCHANGED decoder_vars

\* parse_events in a task that may be cancelled.
NextCancel ==
    \/ Next
    \/ Cancel

SpecCancel == Init /\ [][NextCancel]_vars

\* Handshake events, with or without their identifier, against every answer
\* of the chains, complete or not.
HandshakeEvents == ConnectionEvents \cup ChannelEvents \cup CloseInitEvents

InitHandshake == InitOver(HandshakeEvents, MaxHandshakeEvents, {None}, {FALSE})

NextHandshake ==
    \/ IssueQuery
    \/ QueryReturns(HandshakeChain)
    \/ SyncRead
    \/ PushMessage
    \/ Continue
    \/ ReturnErr
    \/ PanicUnwind
    \/ ReturnOk

SpecHandshake == InitHandshake /\ [][NextHandshake]_vars

\* Batches whose events were emitted at different heights of the source: the
\* handled variants and one unhandled one, each at EventHeight or LaterHeight.
LaterHeight == Height(1, 20)

HeightEvents ==
    LET base == {e \in BaseEvents : e.kind \in HandledKinds \cup {"UpdateClient"}}
    IN base \cup {[e EXCEPT !.height = LaterHeight] : e \in base}

InitHeights == InitOver(HeightEvents, MaxEvents, {None}, {FALSE})

SpecHeights == InitHeights /\ [][Next]_vars

\* The decoder is handed one ABCI event and the height of its block, in a
\* debug or a release build; parse_events is not running.
InitDecode ==
    /\ abci_event \in {Some(e) : e \in AbciEvents}
    /\ abci_height \in {Some(h) : h \in BlockHeights}
    /\ debug_assertions \in BOOLEAN
    /\ decoded = None
    /\ events = <<>>
    /\ mode = None
    /\ testing = FALSE
    /\ packet_relay_enabled = TRUE
    /\ idx = 1
    /\ ins = <<>>
    /\ inflight = None
    /\ messages = <<>>
    /\ origin = <<>>
    /\ queries = <<>>
    /\ hist = <<>>
    /\ pc = "idle"
    /\ result = None

\* ibc_event_try_from_abci_event(&abci_event, height) returns.
Decode ==
    /\ abci_event # None
    /\ decoded = None
    /\ decoded' = Some(ibc_event_try_from_abci_event(Unwrap(abci_event),
                                                     Unwrap(abci_height),
                                                     debug_assertions))
    /\ UNCHANGED <<abci_event, abci_height, debug_assertions>>
    /\ UNCHANGED parse_vars

NextDecode == Decode

SpecDecode == InitDecode /\ [][NextDecode]_vars

\* ==================================================================== claims

\* The loop has moved past event i: its builder ended in a push or a continue.
Completed(i) == i < idx

\* The builder of event i has ended (for the last one, possibly in a failure).
Ended == 1..Len(hist)

\* Event i pushed a message.
Emitted(i) == \E k \in 1..Len(origin) : origin[k] = i

\* The queries issued for event i, in order.
QueriesFor(i) == SelectSeq(queries, LAMBDA r : r.event = i)

\* How the builder of event i ended, given the answers it consumed.
ProducedBy(i) == Arm(events[i], hist[i], testing, packet_relay_enabled)

Returned == pc = "done" /\ Unwrap(result).ok

\* A complete, decodable channel-end answer with at least one connection hop.
ChannelResolved(r) ==
    /\ r.ok
    /\ r.channel # None
    /\ Unwrap(r.channel).counterparty # None
    /\ Len(Unwrap(r.channel).connection_hops) > 0

\* A complete, decodable connection-end answer.
ConnectionResolved(r) ==
    /\ r.ok
    /\ r.connection # None
    /\ Unwrap(r.connection).counterparty # None

\* The admission queries of packet event i resolved its channel and the
\* connection of its first hop (the connection queried is connection_hops[0]).
Admitted(i) ==
    /\ Len(hist[i]) >= 2
    /\ ChannelResolved(hist[i][1])
    /\ ConnectionResolved(hist[i][2])
    /\ QueriesFor(i)[2].q.args = <<Unwrap(hist[i][1].channel).connection_hops[1]>>

DelayOf(i) == Unwrap(hist[i][2].connection).delay_period

ZeroTimeout(packet) ==
    /\ packet.timeout_height = Height(0, 0)
    /\ packet.timeout_timestamp = 0

\* A complete answer of a proof query.
ProofResolved(r) ==
    /\ r.ok
    /\ r.proof # EmptyBytes
    /\ r.proof_height # None
    /\ Unwrap(r.proof_height) # Height(0, 0)

\* -------------------------------------------------------------------- C1
\* C1: when parse_events succeeds, the returned messages are in the order of
\* the events that produced them: the k-th returned message is the one built
\* for event origin[k], and origin is strictly increasing.
C1_OrderPreserved ==
    Returned =>
        LET ms == Unwrap(result).messages
        IN /\ Len(ms) = Len(origin)
           /\ \A k \in 1..Len(ms) :
                 /\ origin[k] \in Ended
                 /\ ProducedBy(origin[k]).t = "emit"
                 /\ ms[k] = ProducedBy(origin[k]).msg
           /\ \A j, k \in 1..Len(ms) : j < k => origin[j] < origin[k]

\* Two events of different kinds both produced a message and were returned.
C1_Witness ==
    /\ Returned
    /\ Len(Unwrap(result).messages) = 2
    /\ Unwrap(result).messages[1].type_url # Unwrap(result).messages[2].type_url
    /\ origin = <<1, 2>>

\* -------------------------------------------------------------------- C2
\* C2: if the builder of event i fails (a query fails or a required response
\* field is absent), parse_events returns that error, returns none of the
\* messages built before, and neither processes nor queries for a later
\* event.
C2_FailureReturnsError ==
    \A i \in Ended :
        ~Completed(i) =>
            /\ pc = "done"
            /\ ~Unwrap(result).ok
            /\ idx = i
            /\ \A k \in 1..Len(queries) : queries[k].event <= i

\* -------------------------------------------------------------------- C3
\* C3: a SendPacket event whose channel's first connection hop resolves on
\* the source to a connection end with delay_period > 0 pushes no message,
\* issues no proof query and does not fail: the loop goes on.
C3_SendPacketDeferred ==
    \A i \in Ended :
        (events[i].kind = "SendPacket" /\ Admitted(i) /\ DelayOf(i) > 0) =>
            /\ ~Emitted(i)
            /\ Completed(i)
            /\ Len(QueriesFor(i)) = 2

C3_Witness ==
    \E i \in Ended :
        /\ events[i].kind = "SendPacket"
        /\ ~ZeroTimeout(events[i].packet)
        /\ Admitted(i) /\ DelayOf(i) > 0
        /\ Completed(i)

\* -------------------------------------------------------------------- C4
\* C4: a SendPacket event whose packet has timeout_height zero and
\* timeout_timestamp zero pushes no message; when it reaches the timeout gate
\* (relay not disabled, admission queries resolved, no delay) it is dropped
\* without a proof query and without an error: the loop goes on.
C4_ZeroTimeoutDropped ==
    \A i \in Ended :
        (events[i].kind = "SendPacket" /\ ZeroTimeout(events[i].packet)) =>
            /\ ~Emitted(i)
            /\ (Admitted(i) /\ DelayOf(i) = 0) =>
                   /\ Completed(i)
                   /\ Len(QueriesFor(i)) = 2

C4_Witness ==
    \E i \in Ended :
        /\ events[i].kind = "SendPacket"
        /\ ZeroTimeout(events[i].packet)
        /\ Admitted(i) /\ DelayOf(i) = 0
        /\ Completed(i)

\* -------------------------------------------------------------------- C5
\* C5: a WriteAcknowledgement event whose destination channel's first
\* connection hop resolves on the source to a connection end with
\* delay_period > 0 pushes no message, issues no proof query and does not
\* fail.
C5_WriteAckDeferred ==
    \A i \in Ended :
        (events[i].kind = "WriteAcknowledgement" /\ Admitted(i) /\ DelayOf(i) > 0) =>
            /\ ~Emitted(i)
            /\ Completed(i)
            /\ Len(QueriesFor(i)) = 2
            /\ QueriesFor(i)[1].q.args =
                   <<events[i].packet.destination_channel, events[i].packet.destination_port>>

C5_Witness ==
    \E i \in Ended :
        /\ events[i].kind = "WriteAcknowledgement"
        /\ Admitted(i) /\ DelayOf(i) > 0
        /\ Completed(i)

\* -------------------------------------------------------------------- C6
\* C6: the timeout gate is not applied to WriteAcknowledgement: an event whose
\* packet has both timeouts zero, over a connection without delay, goes on to
\* query the acknowledgement, and when that query answers completely the
\* event pushes exactly one message, a MsgAcknowledgement of its packet.
C6_WriteAckIgnoresTimeout ==
    \A i \in Ended :
        ( /\ events[i].kind = "WriteAcknowledgement"
          /\ ZeroTimeout(events[i].packet)
          /\ Admitted(i) /\ DelayOf(i) = 0 ) =>
            /\ Len(hist[i]) = 3
            /\ QueriesFor(i)[3].q.op = "query_packet_acknowledgement"
            /\ ProofResolved(hist[i][3]) =>
                  /\ Cardinality({k \in 1..Len(origin) : origin[k] = i}) = 1
                  /\ \A k \in 1..Len(origin) : origin[k] = i =>
                        /\ messages[k].type_url = "/ibc.core.channel.v1.MsgAcknowledgement"
                        /\ messages[k].value.packet = events[i].packet
                        /\ messages[k].value.acknowledgement = events[i].ack

C6_Witness ==
    \E i \in Ended :
        /\ events[i].kind = "WriteAcknowledgement"
        /\ ZeroTimeout(events[i].packet)
        /\ Admitted(i) /\ DelayOf(i) = 0
        /\ Len(hist[i]) = 3 /\ ProofResolved(hist[i][3])
        /\ Emitted(i)

\* -------------------------------------------------------------------- C7
\* C7 as claimed: in a testing build with packet_relay_enabled false, neither
\* a SendPacket nor a WriteAcknowledgement event yields a message, and the
\* event is skipped before any query is issued for it.
C7_RelayGateUniform ==
    \A i \in Ended :
        ( /\ events[i].kind \in {"SendPacket", "WriteAcknowledgement"}
          /\ testing /\ ~packet_relay_enabled ) =>
            /\ ~Emitted(i)
            /\ Len(QueriesFor(i)) = 0

\* C7 as amended: in a testing build with packet_relay_enabled false, a
\* SendPacket event yields no message and is skipped, without error, before
\* any query is issued for it; a WriteAcknowledgement event is not gated by
\* the flag: its channel-end query is issued whatever the flag.
C7_RelayGateSendPacketOnly ==
    \A i \in Ended :
        /\ (events[i].kind = "SendPacket" /\ testing /\ ~packet_relay_enabled) =>
              /\ ~Emitted(i)
              /\ Len(QueriesFor(i)) = 0
              /\ hist[i] = <<>>
              /\ Completed(i)
        /\ events[i].kind = "WriteAcknowledgement" =>
              /\ Len(QueriesFor(i)) >= 1
              /\ QueriesFor(i)[1].q.op = "query_channel_end"

\* With the flag false, a SendPacket event was skipped and a
\* WriteAcknowledgement event pushed its message.
C7_Witness ==
    /\ testing /\ ~packet_relay_enabled
    /\ \E i \in Ended :
          events[i].kind = "SendPacket" /\ ~ZeroTimeout(events[i].packet) /\ Completed(i)
    /\ \E i \in Ended : events[i].kind = "WriteAcknowledgement" /\ Emitted(i)

\* -------------------------------------------------------------------- C8
\* C8: an event of an unhandled variant pushes no message, causes no error
\* and no panic, and no query is issued for it on source or sink.
C8_UnhandledSkipped ==
    \A i \in 1..Len(events) :
        events[i].kind \in
            { "CreateClient", "UpdateClient", "UpgradeClient", "ClientMisbehaviour",
              "PushWasmCode", "OpenConfirmConnection", "OpenConfirmChannel",
              "CloseConfirmChannel", "ReceivePacket", "AcknowledgePacket",
              "TimeoutPacket", "TimeoutOnClosePacket" } =>
            /\ ~Emitted(i)
            /\ Len(QueriesFor(i)) = 0
            /\ idx = i => inflight = None
            /\ i \in Ended => (hist[i] = <<>> /\ Completed(i))

\* An unhandled event was passed over and the event after it pushed its
\* message.
C8_Witness ==
    /\ Returned
    /\ Len(events) = 2
    /\ events[1].kind = "TimeoutOnClosePacket"
    /\ origin = <<2>>

\* -------------------------------------------------------------------- C9
\* The messages the builders of events 1..n push, given their answers.
RECURSIVE ReplayMessages(_)
ReplayMessages(n) ==
    IF n = 0 THEN <<>>
    ELSE IF ProducedBy(n).t = "emit"
         THEN Append(ReplayMessages(n - 1), ProducedBy(n).msg)
         ELSE ReplayMessages(n - 1)

\* The queries the builder of event i awaits while it gets the first n of
\* its answers.
RECURSIVE ReplayEventQueries(_, _)
ReplayEventQueries(i, n) ==
    IF n = 0 THEN <<>>
    ELSE LET step == Arm(events[i], SubSeq(hist[i], 1, n - 1), testing,
                         packet_relay_enabled)
         IN IF step.t = "await" /\ step.q.op \notin SyncOps
            THEN Append(ReplayEventQueries(i, n - 1), [event |-> i, q |-> step.q])
            ELSE ReplayEventQueries(i, n - 1)

RECURSIVE ReplayQueries(_)
ReplayQueries(n) ==
    IF n = 0 THEN <<>>
    ELSE ReplayQueries(n - 1) \o ReplayEventQueries(n, Len(hist[n]))

\* What a call with mode m returns and queries when the chains answer as
\* they did in this run.
RunUnder(m) ==
    LET n == Len(hist)
        last == IF n = 0 THEN Skip ELSE ProducedBy(n)
    IN [ result |->
             IF last.t = "err" THEN Some([ok |-> FALSE, why |-> last.why])
             ELSE IF last.t = "panic" THEN None
             ELSE Some(Finalize(ReplayMessages(n), m)),
         queries |-> ReplayQueries(n) ]

\* C9: against the same chain answers, parse_events returns the same result
\* (the same messages in the same order, or the same error) and issues the
\* same queries under every mode: None, Some(Full) and Some(Light).
C9_ModeIrrelevant ==
    pc \in {"done", "panicked"} =>
        \A m \in {None, Some("Full"), Some("Light")} :
            RunUnder(m) = [result |-> result, queries |-> queries]

\* A light-mode call that returned messages.
C9_Witness ==
    /\ Returned
    /\ mode = Some("Light")
    /\ Len(Unwrap(result).messages) = 2
    /\ Len(queries) > 2

\* ------------------------------------------------------------------- C10
\* The message kind each event kind translates to (spec section 6 urls).
CanonicalUrl(kind) ==
    CASE kind = "OpenInitConnection" -> "/ibc.core.connection.v1.MsgConnectionOpenTry"
      [] kind = "OpenTryConnection" -> "/ibc.core.connection.v1.MsgConnectionOpenAck"
      [] kind = "OpenAckConnection" -> "/ibc.core.connection.v1.MsgConnectionOpenConfirm"
      [] kind = "OpenInitChannel" -> "/ibc.core.channel.v1.MsgChannelOpenTry"
      [] kind = "OpenTryChannel" -> "/ibc.core.channel.v1.MsgChannelOpenAck"
      [] kind = "OpenAckChannel" -> "/ibc.core.channel.v1.MsgChannelOpenConfirm"
      [] kind = "CloseInitChannel" -> "/ibc.core.channel.v1.MsgChannelCloseConfirm"
      [] kind = "SendPacket" -> "/ibc.core.channel.v1.MsgRecvPacket"
      [] kind = "WriteAcknowledgement" -> "/ibc.core.channel.v1.MsgAcknowledgement"
      [] OTHER -> "none"

\* C10: every pushed (and every returned) message has the type url fixed by
\* the kind of the event that produced it, and only the nine handled kinds
\* produce messages.
C10_TypeUrlByEventKind ==
    /\ \A k \in 1..Len(messages) :
          /\ CanonicalUrl(events[origin[k]].kind) # "none"
          /\ messages[k].type_url = CanonicalUrl(events[origin[k]].kind)
    /\ Returned => Unwrap(result).messages = messages

\* A returned OpenAckChannel -> MsgChannelOpenConfirm after another message.
C10_Witness ==
    /\ Returned
    /\ Len(messages) = 2
    /\ events[origin[2]].kind = "OpenAckChannel"
    /\ messages[2].type_url = "/ibc.core.channel.v1.MsgChannelOpenConfirm"

\* ------------------------------------------------------------------- C11
\* The raw connection end the source returned to the builder of event i.
SourceConnection(i) == Unwrap(hist[i][1].connection)

\* C11: every message an OpenInitConnection event produces is a
\* MsgConnectionOpenTry whose counterparty.connection_id is the event's
\* connection_id, whose counterparty.client_id is the event's client id, and
\* whose client_id is the counterparty client id of the connection end the
\* source returned.
C11_OpenTryIdentifiers ==
    \A k \in 1..Len(messages) :
        events[origin[k]].kind = "OpenInitConnection" =>
            LET e == events[origin[k]]
                m == messages[k].value
            IN /\ messages[k].type_url = "/ibc.core.connection.v1.MsgConnectionOpenTry"
               /\ m.counterparty.connection_id = e.connection_id
               /\ m.counterparty.client_id = e.client_id
               /\ m.client_id =
                      Unwrap(SourceConnection(origin[k]).counterparty).client_id

\* An OpenInitConnection event produced its message from a connection end
\* whose counterparty client differs from the event's client.
C11_Witness ==
    \E k \in 1..Len(messages) :
        /\ events[origin[k]].kind = "OpenInitConnection"
        /\ Unwrap(SourceConnection(origin[k]).counterparty).client_id
               # events[origin[k]].client_id
        /\ messages[k].value.counterparty.connection_id = Some("connection-0")

\* ------------------------------------------------------------------- C12
\* The builder of event i got a connection end that decodes.
ConnectionDecoded(i) ==
    /\ Len(hist[i]) >= 1
    /\ ConnectionResolved(hist[i][1])

\* The counterparty connection id of that connection end, "" when unset.
CounterpartyConnectionId(i) ==
    Unwrap(SourceConnection(i).counterparty).connection_id

\* The sink answered the host consensus state proof query of event i (its
\* fifth call) with Ok(None).
HostProofAbsent(i) ==
    /\ Len(hist[i]) = 5
    /\ hist[i][5].ok
    /\ hist[i][5].proof = None

\* The builder of event i (a connection builder with consensus proof) got
\* through all its calls.
CallsDone(i) ==
    /\ Len(hist[i]) >= 4
    /\ query_host_consensus_state_proof(<<>>, Rest(hist[i], 3)).t = "value"

\* C12: the MsgConnectionOpenAck of an OpenTryConnection event has as
\* connection_id the counterparty connection id of the source's connection
\* end and as counterparty_connection_id the event's own connection id.  If
\* the connection end has no counterparty connection id the event pushes no
\* message and the builder fails; parse_events returns an error (unless the
\* sink answered Ok(None) to the host consensus proof query), and that error
\* is "Connection Id not found" when every call of the builder was answered.
C12_OpenAckConnectionIds ==
    \A i \in Ended :
        (events[i].kind = "OpenTryConnection" /\ ConnectionDecoded(i)) =>
            /\ \A k \in 1..Len(messages) : origin[k] = i =>
                  /\ messages[k].value.connection_id = CounterpartyConnectionId(i)
                  /\ messages[k].value.counterparty_connection_id =
                         Unwrap(events[i].connection_id)
            /\ CounterpartyConnectionId(i) = "" =>
                  /\ ~Emitted(i)
                  /\ ~Completed(i)
                  /\ ~HostProofAbsent(i) =>
                        (pc = "done" /\ ~Unwrap(result).ok)
                  /\ CallsDone(i) =>
                        Unwrap(result) = [ok |-> FALSE, why |-> "Connection Id not found"]

\* A first OpenTryConnection event produced its message; the builder of a
\* second one, all of its calls answered, failed for the missing
\* counterparty connection id, and parse_events returned that error.
C12_Witness ==
    /\ Len(hist) = 2 /\ pc = "done"
    /\ events[1].kind = "OpenTryConnection" /\ events[2].kind = "OpenTryConnection"
    /\ origin = <<1>>
    /\ messages[1].value.connection_id = "connection-9"
    /\ messages[1].value.counterparty_connection_id = "connection-0"
    /\ ConnectionDecoded(2) /\ CounterpartyConnectionId(2) = ""
    /\ CallsDone(2)

\* ------------------------------------------------------------------- C13
\* C13: the version of the MsgConnectionOpenAck of an OpenTryConnection event
\* is the first element of the versions of the source's connection end,
\* whatever the others are.  If the versions are empty the event pushes no
\* message and the builder fails; parse_events returns an error (unless the
\* sink answered Ok(None) to the host consensus proof query), and that error
\* is "Connection version is missing" when every call of the builder was
\* answered and the proofs were built.
C13_OpenAckFirstVersion ==
    \A i \in Ended :
        (events[i].kind = "OpenTryConnection" /\ ConnectionDecoded(i)) =>
            /\ \A k \in 1..Len(messages) : origin[k] = i =>
                  /\ Len(SourceConnection(i).versions) > 0
                  /\ messages[k].value.version = SourceConnection(i).versions[1]
            /\ SourceConnection(i).versions = <<>> =>
                  /\ ~Emitted(i)
                  /\ ~Completed(i)
                  /\ ~HostProofAbsent(i) =>
                        (pc = "done" /\ ~Unwrap(result).ok)
                  /\ (CallsDone(i) /\ hist[i][3].proof # EmptyBytes) =>
                        Unwrap(result) =
                            [ok |-> FALSE, why |-> "Connection version is missing"]

\* A first OpenTryConnection event took the first of two versions; the
\* builder of a second one, all of its calls answered, failed for the empty
\* versions, and parse_events returned that error.
C13_Witness ==
    /\ Len(hist) = 2 /\ pc = "done" /\ origin = <<1>>
    /\ events[1].kind = "OpenTryConnection" /\ events[2].kind = "OpenTryConnection"
    /\ SourceConnection(1).versions = <<"v1", "v2">>
    /\ messages[1].value.version = "v1"
    /\ ConnectionDecoded(2) /\ SourceConnection(2).versions = <<>>
    /\ Unwrap(result) = [ok |-> FALSE, why |-> "Connection version is missing"]

\* ------------------------------------------------------------------- C14
\* The answers the builder of event i has got so far.
AnswersOf(i) == IF i \in Ended THEN hist[i] ELSE ins

\* The queries for event i of the sink's host consensus state proof.
HostProofQueries(i) ==
    SelectSeq(QueriesFor(i), LAMBDA r : r.q.op = "query_host_consensus_state_proof")

\* C14: for an OpenInitConnection or OpenTryConnection event whose builder
\* has read the sink's client type, the sink's
\* query_host_consensus_state_proof is called (once, on the sink) if and
\* only if that type is not Tendermint; the message of the event carries the
\* empty proof when the sink is Tendermint and exactly the bytes the sink
\* returned when it is not.  No other builder calls it.
C14_HostProofIffNotTendermint ==
    /\ \A i \in Ended :
          ( /\ events[i].kind \in {"OpenInitConnection", "OpenTryConnection"}
            /\ Len(hist[i]) >= 4 ) =>
              /\ hist[i][4] = "07-tendermint" =>
                    /\ Len(HostProofQueries(i)) = 0
                    /\ Len(hist[i]) = 4
                    /\ \A k \in 1..Len(messages) : origin[k] = i =>
                          messages[k].value.host_consensus_state_proof = <<>>
              /\ hist[i][4] # "07-tendermint" =>
                    /\ Len(HostProofQueries(i)) = 1
                    /\ HostProofQueries(i)[1].q.chain = "sink"
                    /\ Len(hist[i]) = 5
                    /\ \A k \in 1..Len(messages) : origin[k] = i =>
                          /\ hist[i][5].ok
                          /\ messages[k].value.host_consensus_state_proof =
                                 Unwrap(hist[i][5].proof)
    /\ \A i \in 1..Len(events) :
          Len(HostProofQueries(i)) > 0 =>
              /\ events[i].kind \in {"OpenInitConnection", "OpenTryConnection"}
              /\ Len(AnswersOf(i)) >= 4
              /\ AnswersOf(i)[4] # "07-tendermint"

\* A connection message built against a Tendermint sink, then one built
\* against a sink of another type with the bytes that sink returned.
C14_Witness ==
    /\ origin = <<1, 2>>
    /\ events[1].kind = "OpenInitConnection" /\ events[2].kind = "OpenTryConnection"
    /\ hist[1][4] = "07-tendermint" /\ hist[2][4] = "10-grandpa"
    /\ messages[1].value.host_consensus_state_proof = <<>>
    /\ messages[2].value.host_consensus_state_proof = <<"host-proof">>
    /\ Len(HostProofQueries(1)) = 0 /\ Len(HostProofQueries(2)) = 1

\* ------------------------------------------------------------------- C15
\* The answer that supplied the primary proof of the message of event i: the
\* connection end or channel end (the first call of a handshake builder), the
\* packet commitment or acknowledgement (the third call of a packet builder).
PrimaryAnswer(i) ==
    IF events[i].kind \in {"SendPacket", "WriteAcknowledgement"}
    THEN hist[i][3] ELSE hist[i][1]

PrimaryOp(kind) ==
    CASE kind \in {"OpenInitConnection", "OpenTryConnection", "OpenAckConnection"} ->
            "query_connection_end"
      [] kind \in {"OpenInitChannel", "OpenTryChannel", "OpenAckChannel",
                   "CloseInitChannel"} -> "query_channel_end"
      [] kind = "SendPacket" -> "query_packet_commitment"
      [] kind = "WriteAcknowledgement" -> "query_packet_acknowledgement"

\* The positions in hist[i] of the answers of the source's proof-carrying
\* queries (the fourth and fifth calls of a connection builder are the sink's).
SourceAnswers(i) == {n \in 1..Len(hist[i]) : n <= 3}

\* C16: the proof height recorded in a message is the proof_height returned
\* by the source query that supplied its primary proof (query_connection_end,
\* query_channel_end, query_packet_commitment or
\* query_packet_acknowledgement, by kind); it is not the height of the event
\* and not the proof height of another query of the builder.
C16_ProofHeightOfPrimaryQuery ==
    \A k \in 1..Len(messages) :
        LET i == origin[k]
            n == IF events[i].kind \in {"SendPacket", "WriteAcknowledgement"} THEN 3 ELSE 1
            height == messages[k].value.proofs.height
        IN /\ QueriesFor(i)[n].q.op = PrimaryOp(events[i].kind)
           /\ QueriesFor(i)[n].q.chain = "source"
           /\ hist[i][n].proof_height # <<>>
           /\ height = hist[i][n].proof_height[1]
           /\ height # events[i].height
           /\ \A j \in SourceAnswers(i) \ {n} :
                  hist[i][j].proof_height # <<height>>

\* A connection message and a packet message, each at the proof height of
\* its primary query, after secondary queries answered at other heights.
C16_Witness ==
    /\ origin = <<1, 2>>
    /\ events[1].kind = "OpenTryConnection" /\ events[2].kind = "WriteAcknowledgement"
    /\ messages[1].value.proofs.height = Height(1, 11)
    /\ messages[2].value.proofs.height = Height(1, 16)
    /\ hist[1][2].proof_height = <<Height(1, 13)>>
    /\ hist[2][1].proof_height = <<Height(1, 12)>>

\* ------------------------------------------------------------------- C17
\* The builder of event i got a channel end that decodes but names no
\* counterparty channel, in an answer complete otherwise.
CounterpartyChannelMissing(i) ==
    /\ Len(hist[i]) >= 1
    /\ hist[i][1].ok
    /\ hist[i][1].channel # None
    /\ Unwrap(hist[i][1].channel).counterparty # None
    /\ Unwrap(Unwrap(hist[i][1].channel).counterparty).channel_id = ""
    /\ hist[i][1].proof # EmptyBytes
    /\ hist[i][1].proof_height # None

\* C17: for an OpenTryChannel, OpenAckChannel or CloseInitChannel event whose
\* channel end has no counterparty channel id, parse_events returns an error
\* value and pushes no message; it does not crash.
C17_MissingChannelIdIsError ==
    \A i \in Ended :
        ( /\ events[i].kind \in {"OpenTryChannel", "OpenAckChannel", "CloseInitChannel"}
          /\ CounterpartyChannelMissing(i) ) =>
            /\ ~Emitted(i)
            /\ pc = "done"
            /\ ~Unwrap(result).ok

\* ------------------------------------------------------------------- C18
\* C18: once the task is cancelled at a suspension point, parse_events
\* delivers nothing: no result reaches the caller, neither the message under
\* construction nor the messages accumulated for earlier events, and the
\* awaited query is dropped.
C18_CancelDeliversNothing ==
    pc = "cancelled" =>
        /\ result = None
        /\ inflight = None

\* Cancelled during the queries of the second event, after the first event
\* had pushed its message and the second had got an answer.
C18_Witness ==
    /\ pc = "cancelled"
    /\ Len(messages) = 1
    /\ idx = 2
    /\ Len(ins) >= 1
    /\ result = None

\* ------------------------------------------------------------------- C19
\* C19: an ABCI event whose kind is not the name of an IBC event type is
\* refused with UnsupportedAbciEvent carrying the kind, whatever its
\* attributes, the fallback height and the build.
C19_UnknownKindUnsupported ==
    (decoded # None /\ ~IbcEventType_from_str(abci_event[1].kind).ok) =>
        decoded[1] = [ ok |-> FALSE,
                       err |-> [ error |-> "unsupported_abci_event",
                                 kind |-> abci_event[1].kind ] ]

\* The kind "quantum_teleport" with packet attributes was refused.
C19_Witness ==
    /\ decoded # None
    /\ abci_event[1].kind = "quantum_teleport"
    /\ Len(abci_event[1].attributes) = 2
    /\ abci_event[1].attributes[1].key = "packet_sequence"
    /\ decoded[1].err.kind = "quantum_teleport"

\* ------------------------------------------------------------------- C20
\* The attributes of an event other than its packet_timeout_height.
WithoutTimeoutHeight(attributes) ==
    SelectSeq(attributes, LAMBDA tag : tag.key # "packet_timeout_height")

\* The values of its packet_timeout_height attributes.
TimeoutHeightValues(attributes) ==
    { attributes[n].value :
        n \in {j \in 1..Len(attributes) : attributes[j].key = "packet_timeout_height"} }

\* C20: decoding a send_packet event whose packet_timeout_height is the
\* literal "0" succeeds (its other attributes being well-formed) and yields a
\* SendPacket event without height timeout and with the other packet fields
\* as given; a packet_timeout_height that is neither "0" nor a height makes
\* the decode fail.
C20_ZeroStringIsNoTimeout ==
    LET e == abci_event[1]
        others == WithoutTimeoutHeight(e.attributes)
        rest == extract_packet_and_write_ack_from_tx(others, Len(others))
        values == TimeoutHeightValues(e.attributes)
    IN (decoded # None /\ e.kind = "send_packet" /\ values # {}) =>
          /\ ( /\ values = {<<"0">>}
               /\ rest.ok
               /\ ~(debug_assertions /\ rest.v.write_ack # <<>>) ) =>
                  decoded[1] =
                      [ ok |-> TRUE,
                        v |-> [ kind |-> "SendPacket",
                                packet |-> [rest.v.packet EXCEPT
                                               !.timeout_height = Height(0, 0)],
                                height |-> abci_height[1] ] ]
          /\ (\E value \in values : value # <<"0">> /\ ~Height_from_str(value).ok) =>
                  ~decoded[1].ok

\* ------------------------------------------------------------------- C21
\* The value of the first "header" attribute of an event, None without one.
FirstHeader(attributes) ==
    LET at == {n \in 1..Len(attributes) : attributes[n].key = "header"}
    IN IF at = {} THEN None
       ELSE Some(attributes[CHOOSE n \in at : \A k \in at : n <= k].value)

\* The header attribute decodes: hexadecimal, and the bytes of a header.
WellFormedHeader(value) ==
    hex_decode(value).ok /\ decode_header(hex_decode(value).v).ok

\* C21: decoding an update_client event whose header attribute cannot be
\* hex-decoded or decoded as a header fails with MalformedHeader; with a
\* well-formed header the event carries the re-encoded header bytes; without
\* a header attribute the decode succeeds with no header.
C21_MalformedHeaderSurfaced ==
    LET e == abci_event[1]
        header == FirstHeader(e.attributes)
        common == client_extract_attributes_from_tx(e, abci_height[1])
    IN (decoded # None /\ e.kind = "update_client" /\ common.ok) =>
          /\ (header # None /\ ~WellFormedHeader(header[1])) =>
                /\ ~decoded[1].ok
                /\ decoded[1].err = [error |-> "client", cause |-> "malformed_header"]
          /\ (header # None /\ WellFormedHeader(header[1])) =>
                /\ decoded[1].ok
                /\ decoded[1].v.header =
                      Some(Header_encode_vec(decode_header(hex_decode(header[1]).v).v))
          /\ header = None => (decoded[1].ok /\ decoded[1].v.header = None)

\* ------------------------------------------------------------------- C22
\* The kinds of the client events whose attributes carry a height.
ClientKinds ==
    { "create_client", "update_client", "upgrade_client", "client_misbehaviour" }

\* The value of the last attribute of an event with the given key, None
\* without one: a later attribute overwrites an earlier one.
LastValue(attributes, key) ==
    LET at == {n \in 1..Len(attributes) : attributes[n].key = key}
    IN IF at = {} THEN None
       ELSE Some(attributes[CHOOSE n \in at : \A k \in at : k <= n].value)

\* C22: a decoded client event (create, update, upgrade, misbehaviour) has
\* the fallback height when its height attribute is absent or parses to the
\* zero height, and the parsed height of the attribute otherwise.
C22_ClientHeightFallback ==
    LET e == abci_event[1]
        given == LastValue(e.attributes, "height")
    IN (decoded # None /\ e.kind \in ClientKinds /\ decoded[1].ok) =>
          decoded[1].v.attributes.height =
              IF given = None \/ Height_from_str(given[1]).v = Height(0, 0)
              THEN abci_height[1]
              ELSE Height_from_str(given[1]).v

\* A client event whose height attribute reads "0-0" was decoded at the
\* height of its block.
C22_Witness ==
    /\ decoded # None
    /\ abci_event[1].kind = "create_client"
    /\ LastValue(abci_event[1].attributes, "height") = Some(<<"0", "-", "0">>)
    /\ abci_height[1] = Height(2, 3)
    /\ decoded[1].ok
    /\ decoded[1].v.attributes.height = Height(2, 3)

\* ------------------------------------------------------------------- C23
\* The proof queries of the packet builders.
ProofOps == {"query_packet_commitment", "query_packet_acknowledgement"}

\* C23: the proof query of a SendPacket (query_packet_commitment) or
\* WriteAcknowledgement (query_packet_acknowledgement) event is issued only
\* after the admission gates have passed: it directly follows the event's
\* channel-end and connection-end queries, both answered, over a connection
\* without delay, and for SendPacket the packet has a timeout and relaying is
\* not disabled; so it is never issued for a deferred or dropped packet.
C23_ProofQueryAfterGates ==
    \A n \in 1..Len(queries) :
        LET i == queries[n].event
            answers == AnswersOf(i)
        IN queries[n].q.op \in ProofOps =>
              /\ events[i].kind \in {"SendPacket", "WriteAcknowledgement"}
              /\ queries[n].q.op = PrimaryOp(events[i].kind)
              /\ n >= 3
              /\ queries[n - 2].event = i
              /\ queries[n - 2].q.op = "query_channel_end"
              /\ queries[n - 1].event = i
              /\ queries[n - 1].q.op = "query_connection_end"
              /\ Len(answers) >= 2
              /\ answers[1].ok /\ answers[2].ok
              /\ answers[2].connection # None
              /\ Unwrap(answers[2].connection).delay_period = 0
              /\ events[i].kind = "SendPacket" =>
                    /\ ~ZeroTimeout(events[i].packet)
                    /\ ~(testing /\ ~packet_relay_enabled)

\* A SendPacket event was deferred after its two admission queries, and the
\* WriteAcknowledgement event after it has reached its proof query.
C23_Witness ==
    /\ Len(events) = 2
    /\ events[1].kind = "SendPacket"
    /\ events[2].kind = "WriteAcknowledgement"
    /\ Len(hist) >= 1
    /\ Admitted(1) /\ DelayOf(1) > 0
    /\ Len(QueriesFor(1)) = 2
    /\ Len(QueriesFor(2)) = 3
    /\ QueriesFor(2)[3].q.op = "query_packet_acknowledgement"

\* ------------------------------------------------------------------- C24
\* C24: every query of the source is issued at the height of the event
\* being translated, so all queries of one builder carry the same height
\* argument; the sink is read at no height.
C24_QueriesAtEventHeight ==
    \A n \in 1..Len(queries) :
        LET r == queries[n]
        IN /\ r.q.chain = "source" =>
                 /\ r.q.op \in AsyncOps \ {"query_host_consensus_state_proof"}
                 /\ r.q.at = Some(events[r.event].height)
           /\ \A k \in 1..Len(queries) :
                 (queries[k].event = r.event /\ queries[k].q.chain = "source"
                     /\ r.q.chain = "source") => queries[k].q.at = r.q.at

\* Two events of different heights have each issued several queries: the
\* connection builder of the first all three of the source, the channel
\* builder of the second both of its own.
C24_Witness ==
    /\ Len(events) = 2
    /\ events[1].kind = "OpenInitConnection"
    /\ events[2].kind = "OpenInitChannel"
    /\ events[1].height = LaterHeight
    /\ events[2].height = EventHeight
    /\ Len(SelectSeq(QueriesFor(1), LAMBDA r : r.q.chain = "source")) = 3
    /\ Len(QueriesFor(2)) = 2

\* ------------------------------------------------------------------- C25
\* The queries of event i that have not returned: the one in flight, if it
\* is i's.
Outstanding(i) == IF inflight # None /\ i = idx THEN 1 ELSE 0

\* C25: during one call at most one query is in flight: the awaited query is
\* the last one issued, every query issued before it has returned its
\* answer, and the queries are issued event by event, all of event i before
\* any of event i+1.
C25_OneQueryAtATime ==
    /\ inflight # None =>
          /\ queries # <<>>
          /\ queries[Len(queries)] = [event |-> idx, q |-> Unwrap(inflight)]
    /\ \A i \in 1..Len(events) :
          Len(AnswersOf(i)) >= Len(QueriesFor(i)) - Outstanding(i)
    /\ \A n \in 1..Len(queries) : \A k \in 1..Len(queries) :
          n < k => queries[n].event <= queries[k].event
    /\ \A n \in 1..Len(queries) : queries[n].event <= idx

\* The second event awaits its second query; the three queries of the first
\* event and the first of the second have all returned.
C25_Witness ==
    /\ Len(events) = 2
    /\ idx = 2
    /\ inflight # None
    /\ Len(QueriesFor(1)) >= 3
    /\ Len(QueriesFor(2)) = 2
    /\ Len(ins) = 1

\* ------------------------------------------------------------------- C26
\* Where the answer to the n-th query of event i stands among the answers of
\* its builder: the sink's query comes after one synchronous read.
AnswerTo(i, n) == IF QueriesFor(i)[n].q.chain = "sink" THEN n + 1 ELSE n

\* C26: no retries: within one call the queries of an event are pairwise
\* different (none is issued twice), and a query that failed is the last
\* query of the call: its event pushes no message and parse_events returns
\* an error (or is about to, the failure in hand).
C26_NoRetries ==
    \A i \in 1..Len(events) :
        LET issued == QueriesFor(i)
            answers == AnswersOf(i)
        IN /\ \A n \in 1..Len(issued) : \A k \in 1..Len(issued) :
                 n # k => issued[n].q.op # issued[k].q.op
           /\ \A n \in 1..Len(issued) :
                 (AnswerTo(i, n) <= Len(answers) /\ ~answers[AnswerTo(i, n)].ok) =>
                     /\ n = Len(issued)
                     /\ queries[Len(queries)] = issued[n]
                     /\ idx = i
                     /\ ~Emitted(i)
                     /\ \/ pc = "run" /\ inflight = None /\ Step.t = "err"
                        \/ pc = "done" /\ ~Unwrap(result).ok

\* The first event pushed its message; the second query of the second event
\* failed and parse_events returned the error, having issued it once.
C26_Witness ==
    /\ Len(events) = 2
    /\ Emitted(1)
    /\ Len(QueriesFor(2)) = 2
    /\ Len(hist) = 2
    /\ ~hist[2][2].ok
    /\ pc = "done"
    /\ ~Unwrap(result).ok

\* ------------------------------------------------------------------- C27
\* The primary query of event i answered, and its response lacks the
\* proof_height field.
ProofHeightMissing(i) ==
    LET p == IF events[i].kind \in {"SendPacket", "WriteAcknowledgement"} THEN 3 ELSE 1
    IN /\ events[i].kind \in HandledKinds
       /\ Len(hist[i]) >= p
       /\ hist[i][p].ok
       /\ hist[i][p].proof_height = None

\* C27: when the response of the primary source query lacks proof_height,
\* parse_events returns an error value and the event pushes no message, in
\* the connection, channel and packet builders alike; the translator does not
\* crash.
C27_MissingProofHeightIsError ==
    \A i \in Ended :
        ProofHeightMissing(i) =>
            /\ ~Emitted(i)
            /\ pc # "panicked"
            /\ pc = "done" /\ result # None /\ ~Unwrap(result).ok

\* ------------------------------------------------------------------- C28
\* C28: the MsgChannelOpenTry built for an OpenInitChannel event carries a
\* channel end in state TryOpen, with ordering and version copied from the
\* source channel end, the event's own port id and channel id as
\* counterparty, and as connection_hops the one counterparty connection id
\* of the source connection the event names; its port_id is the counterparty
\* port of the source channel end.
C28_OpenTryChannelEnd ==
    \A k \in 1..Len(messages) :
        LET i == origin[k]
            source_channel == Unwrap(hist[i][1].channel)
            source_connection == Unwrap(hist[i][2].connection)
        IN events[i].kind = "OpenInitChannel" =>
              /\ messages[k].type_url = "/ibc.core.channel.v1.MsgChannelOpenTry"
              /\ QueriesFor(i)[2].q.op = "query_connection_end"
              /\ QueriesFor(i)[2].q.args = <<events[i].connection_id>>
              /\ messages[k].value.channel =
                    [ state |-> "TryOpen",
                      ordering |-> source_channel.ordering,
                      counterparty |-> [ port_id |-> events[i].port_id,
                                         channel_id |-> events[i].channel_id ],
                      connection_hops |->
                          <<Unwrap(source_connection.counterparty).connection_id>>,
                      version |-> source_channel.version ]
              /\ messages[k].value.port_id = Unwrap(source_channel.counterparty).port_id

\* An OpenInitChannel event over an unordered source channel pushed its
\* message, and parse_events returned it.
C28_Witness ==
    /\ Returned
    /\ Len(events) = 1
    /\ events[1].kind = "OpenInitChannel"
    /\ Len(messages) = 1
    /\ messages[1].value.channel.ordering = "Unordered"
    /\ messages[1].value.channel.state = "TryOpen"

\* ------------------------------------------------------------------- C29
\* C29: each event contributes at most one message: the accumulated list is
\* never longer than the number of events whose builder has ended, no event
\* is the origin of two messages, and a successful result has no more
\* messages than there were events.
C29_AtMostOneMessagePerEvent ==
    /\ Len(messages) <= Len(hist)
    /\ Len(messages) <= idx - 1
    /\ \A i \in 1..Len(events) :
          Cardinality({k \in 1..Len(origin) : origin[k] = i}) <= 1
    /\ Len(origin) = Len(messages)
    /\ Returned => Len(Unwrap(result).messages) <= Len(events)

\* Of two events the first pushed a message and the second, a dropped
\* packet, none; parse_events returned the one message.
C29_Witness ==
    /\ Returned
    /\ Len(events) = 2
    /\ events[1].kind = "OpenAckChannel"
    /\ events[2].kind = "SendPacket"
    /\ origin = <<1>>
    /\ Len(Unwrap(result).messages) = 1

\* ------------------------------------------------------------------- C30
\* The builder of event i ended without a message and without a failure: the
\* event was deferred, dropped or is of an unhandled variant.
Skipped(i) == ProducedBy(i).t = "skip"

\* C30: a skipped event does not end the batch: the loop moves on to the
\* event after it, a later event whose builder ends in a message has that
\* message pushed, and when parse_events returns Ok every event of the batch
\* has been processed and every such message is returned.
C30_SkipDoesNotEndBatch ==
    \A i \in Ended :
        Skipped(i) =>
            /\ Completed(i)
            /\ ~Emitted(i)
            /\ (pc = "run" /\ i < Len(events)) => idx \in (i + 1)..(Len(events) + 1)
            /\ \A j \in Ended :
                  (j > i /\ ProducedBy(j).t = "emit") =>
                      \E k \in 1..Len(origin) :
                          /\ origin[k] = j
                          /\ messages[k] = ProducedBy(j).msg
                          /\ Returned => Unwrap(result).messages[k] = messages[k]
            /\ Returned => Len(hist) = Len(events)

\* A SendPacket event was deferred over a delayed connection; the
\* WriteAcknowledgement event after it pushed its message, which was returned.
C30_Witness ==
    /\ Returned
    /\ Len(events) = 2
    /\ events[1].kind = "SendPacket"
    /\ Admitted(1) /\ DelayOf(1) > 0
    /\ events[2].kind = "WriteAcknowledgement"
    /\ origin = <<2>>
    /\ Len(Unwrap(result).messages) = 1

\* ------------------------------------------------------------------- C31
\* Event i is a connection handshake event without connection_id, or a
\* channel handshake event without channel_id.
IdentifierAbsent(i) ==
    \/ events[i].kind \in ConnectionKinds /\ events[i].connection_id = None
    \/ events[i].kind \in ChannelKinds /\ events[i].channel_id = None

\* C31: a connection handshake event (OpenInit, OpenTry, OpenAck) without
\* connection_id and a channel handshake event (OpenInit, OpenTry, OpenAck)
\* without channel_id is skipped silently: no query is ever issued for it,
\* it pushes no message, and parse_events does not fail at it: the loop moves
\* on, and a returned error stems from another event.
C31_MissingIdentifierSkipped ==
    \A i \in 1..Len(events) :
        IdentifierAbsent(i) =>
            /\ QueriesFor(i) = <<>>
            /\ ~Emitted(i)
            /\ i \in Ended => (hist[i] = <<>> /\ Completed(i))
            /\ (pc = "run" /\ idx = i /\ inflight = None) => Step.t = "skip"
            /\ pc = "panicked" => idx # i
            /\ (pc = "done" /\ ~Unwrap(result).ok) => idx # i

\* A connection event without connection_id and a channel event without
\* channel_id were both passed over: parse_events returned Ok with no message
\* and without having queried either chain.
C31_Witness ==
    /\ Returned
    /\ Len(events) = 2
    /\ events[1].kind = "OpenTryConnection" /\ events[1].connection_id = None
    /\ events[2].kind = "OpenInitChannel" /\ events[2].channel_id = None
    /\ Unwrap(result).messages = <<>>
    /\ queries = <<>>
    /\ Len(hist) = 2

\* ------------------------------------------------------------------- C32
\* C32: the admission checks of a SendPacket event run in the order
\* channel-end query, connection-end query, delay check, timeout check.  So
\* a zero-timeout packet is still queried for: its first query is the
\* channel end and, that resolved, its second the connection end; a failure
\* of either makes parse_events return an error at that event; and a packet
\* that is zero-timeout over a delayed connection is deferred by the delay
\* gate (the delay line is logged, not the timeout line).
C32_SendPacketGateOrder ==
    \A i \in Ended :
        ( /\ events[i].kind = "SendPacket"
          /\ ZeroTimeout(events[i].packet)
          /\ ~RelayGate(testing, packet_relay_enabled) ) =>
            /\ Len(QueriesFor(i)) \in {1, 2}
            /\ QueriesFor(i)[1].q.op = "query_channel_end"
            /\ Len(QueriesFor(i)) = 2 => QueriesFor(i)[2].q.op = "query_connection_end"
            /\ ChannelResolved(hist[i][1]) => Len(QueriesFor(i)) = 2
            /\ (\E n \in 1..Len(hist[i]) : ~hist[i][n].ok) =>
                  /\ ProducedBy(i).t = "err"
                  /\ pc = "done" /\ ~Unwrap(result).ok /\ idx = i
            /\ (Admitted(i) /\ DelayOf(i) > 0) =>
                  ProducedBy(i) =
                      Logged("Skipping packet relay because of connection delays")
            /\ (Admitted(i) /\ DelayOf(i) = 0) =>
                  ProducedBy(i) =
                      Logged("Skipping packet relay because packet timeout is zero")

\* The first event, a zero-timeout packet over a delayed connection, was
\* deferred; the connection-end query of the second, zero-timeout too,
\* failed, and parse_events returned the error.
C32_Witness ==
    /\ Len(events) = 2
    /\ events[1].kind = "SendPacket" /\ ZeroTimeout(events[1].packet)
    /\ events[2].kind = "SendPacket" /\ ZeroTimeout(events[2].packet)
    /\ Len(hist) = 2
    /\ Admitted(1) /\ DelayOf(1) > 0
    /\ Len(hist[2]) = 2 /\ hist[2][1].ok /\ ~hist[2][2].ok
    /\ pc = "done"
    /\ ~Unwrap(result).ok

\* ------------------------------------------------------------------- C33
\* parse_events has returned after visiting its events once each, in order:
\* all of them when it returned Ok, those up to the failing one otherwise.
VisitedInOrder ==
    IF Unwrap(result).ok
    THEN Len(hist) = Len(events) /\ idx = Len(events) + 1
    ELSE Len(hist) = idx /\ idx <= Len(events)

\* C33: provided every ChainPort call eventually returns, parse_events
\* terminates: each event is visited once, in input order, and the call ends
\* with the accumulated message list or the first error.
C33_TerminatesWithResult ==
    /\ <>(pc = "done" /\ result # None)
    /\ [](pc = "done" => VisitedInOrder)

\* ------------------------------------------------------------------- C34
\* The event types the match of the decoder has no arm for although the
\* decoder of their events exists.
UndispatchedTypes == {"ReceivePacket", "TimeoutOnClose"}

\* C34: an ABCI event whose kind parses to ReceivePacket or TimeoutOnClose is
\* refused with UnsupportedAbciEvent carrying its kind, exactly as an unknown
\* kind is, whatever its attributes; the decoder never yields a ReceivePacket
\* or TimeoutOnClosePacket event.
C34_RecvAndTimeoutOnCloseUnsupported ==
    LET type == IbcEventType_from_str(abci_event[1].kind)
    IN decoded # None =>
          /\ (type.ok /\ type.v \in UndispatchedTypes) =>
                decoded[1] = [ ok |-> FALSE,
                               err |-> [ error |-> "unsupported_abci_event",
                                         kind |-> abci_event[1].kind ] ]
          /\ decoded[1].ok =>
                decoded[1].v.kind \notin
                    {"ReceivePacket", "TimeoutOnClose", "TimeoutOnClosePacket"}

\* A recv_packet event with a well-formed packet was refused.
C34_Witness ==
    /\ decoded # None
    /\ abci_event[1].kind = "recv_packet"
    /\ abci_event[1].attributes =
          <<Tag("packet_sequence", <<"7">>), Tag("packet_timeout_height", <<"1", "-", "7">>)>>
    /\ ~decoded[1].ok
    /\ decoded[1].err.error = "unsupported_abci_event"

=============================================================================
